---- MODULE Spec2Model ----
(***************************************************************************)
(* SpotJar: the browser map views (SpotMap.web.tsx and the polling         *)
(* variants kept beside it) and the map/place bookkeeping of the app       *)
(* screen (SpotMap.tsx), as state machines.                                *)
(*                                                                         *)
(* A page holds component instances 1..MaxInst, mounted in index order and *)
(* never reused: a remount of a view is the next instance, with its own    *)
(* refs and its own container element.  Pending asynchronous callbacks     *)
(* (geolocation replies, timers, animation frames) are a bag of tasks that *)
(* the event loop runs one at a time in any order.                         *)
(***************************************************************************)
EXTENDS Integers, Sequences, FiniteSets, Bags, TLC

\* ------------------------------------------------------------------ bounds
MaxInst == 2
NPlaces == 3

Inst == 1..MaxInst
PlaceIds == 1..NPlaces

\* ------------------------------------------------------- program constants
\* { lat: 49.2827, lng: -123.1207 }, in units of 1e-4 degree
DEFAULT_LOCATION == <<492827, -1231207>>
\* positions the device may report
DevicePositions == {<<515074, -1278>>}

\* ------------------------------------------------------------------ places
\* An optional coordinate is <<>> when undefined and <<v>> when set.
\* Place 1 and 2 are the places "A" and "B" of the scenario; place 3 lies on
\* the equator.
PlaceLat(p) == CASE p = 1 -> <<492800>> [] p = 2 -> <<>> [] p = 3 -> <<0>> [] OTHER -> <<p>>
PlaceLng(p) == CASE p = 1 -> <<-1231200>> [] p = 2 -> <<>> [] p = 3 -> <<-784500>> [] OTHER -> <<p>>

\* JavaScript truthiness of an optional number: undefined and 0 are falsy.
Truthy(c) == c # <<>> /\ c[1] # 0

\* places.filter(p => p.lat && p.lng)
HasCoords(p) == Truthy(PlaceLat(p)) /\ Truthy(PlaceLng(p))

PlaceLists == SUBSET PlaceIds

NoMarkers == [p \in PlaceIds |-> 0]

\* one marker per place that passes the filter
MarkersFor(ps) == [p \in PlaceIds |-> IF p \in ps /\ HasCoords(p) THEN 1 ELSE 0]

\* ------------------------------------------------------------------- state
VARIABLES
  phase,        \* per instance: "new" (not mounted yet), "mounted", "gone"
  variant,      \* per instance: which implementation it is
  places,       \* per instance: the places prop (set of place ids)
  pinMode,      \* per instance: the pinMode prop of the latest render
  closurePin,   \* per instance: pinMode as captured by the mount-effect closure
  mapRef,       \* per instance: mapInstanceRef.current (0 = null)
  ready,        \* per instance: the ready state
  markersRef,   \* per instance: the markers it tracks: [map, on]
  interval,     \* per instance: its poll interval is running
  attempts,     \* per instance: the poll's attempt counter
  link,         \* per instance: it appended a stylesheet tag
  script,       \* per instance: the script tag it appended: none/loading/loaded/failed
  LDefined,     \* window.L exists
  geoAvailable, \* navigator.geolocation exists
  tasks,        \* bag of pending callbacks [k, i, c]
  mapObjs,      \* every map object ever constructed, by id
  leafletId,    \* per container element: _leaflet_id (0 = unset)
  lmapCalls,    \* per instance: how often its code invoked L.map
  gesture,      \* the last contextmenu gesture and whether it was delivered
  geoAnswer     \* per instance: how its location request was answered

\* What the views that wait for a laid-out container, and that hand the map
\* to timers and location callbacks, need in addition.
VARIABLES
  height,       \* per container element: its offsetHeight is above 0
  builtOn,      \* history: per map built by such a view, what the element was like
  lateOps       \* history: the engine operations invoked on a removed map

sizeVars == <<height, builtOn, lateOps>>
\* The view that draws its map in an iframe and talks to it by postMessage.
VARIABLES
  iframeReady,  \* per instance: the iframeReady state
  frameDoc,     \* per instance: its iframe: none/blank/loading/page/broken
  frameMarkers, \* per instance: the markers window._markers of its page holds
  msgs,         \* messages posted to the parent window, not yet dispatched
  earlyUpdate,  \* history: views that posted updateMarkers to a frame with no page
  frameCalls    \* the callbacks the last dispatched message led to: [to, from, k, live]
frameVars == <<iframeReady, frameDoc, frameMarkers, msgs, earlyUpdate, frameCalls>>

viewVars == <<phase, variant, places, pinMode, closurePin, mapRef, ready, markersRef,
              interval, attempts, link, script, LDefined, geoAvailable, tasks,
              mapObjs, leafletId, lmapCalls, gesture, geoAnswer, sizeVars, frameVars>>

\* The application (SpotMap.tsx): the hosted backend and, per user, the client.
VARIABLES
  dbMaps,        \* backend table maps: per id the row [owner, code], or NoMap
  dbPlaces,      \* backend table places: rows <<place id, map id>>
  dbUserMaps,    \* backend table user_maps: rows <<user, map id>>
  clock,         \* Date.now() as used for map ids: the last id handed out
  placeClock,    \* Date.now() as used for place ids
  deleted,       \* history: ids of the maps a deleteMap removed from the backend
  deletedPlaces, \* history: ids of the places those maps had when removed
  session,       \* per user: signed in
  maps,          \* per user: the maps state of App, entries [id, owner, places]
  screen,        \* per user: "home" or "map"
  activeMap,     \* per user: the activeMap state (NoEntry = null)
  joinOpen,      \* per user: HomeScreen's joinOpen
  joinCode,      \* per user: HomeScreen's joinCode
  joinError,     \* per user: HomeScreen's joinError
  saving,        \* per user: HomeScreen's saving
  alert,         \* per user: title of the last Alert.alert shown
  load,          \* per user: the loadMaps call in flight
  join,          \* per user: the handleJoin call in flight
  create,        \* per user: the handleCreate call in flight
  linkQ,         \* onMapCreated calls in flight: <<user, map id>>
  del,           \* per user: id of the map whose deleteMap is in flight (0 = none)
  save            \* per user: the savePlace call in flight

\* The map screen (MapDetailScreen) and what the place handlers need.
VARIABLES
  dbEdited,      \* backend table places: ids of the rows an update has rewritten
  addOpen,       \* per user: MapDetailScreen's addOpen (the add/edit dialog)
  editing,       \* per user: MapDetailScreen's editing (0 = null)
  savingPlace,   \* per user: MapDetailScreen's saving
  memb,          \* per user: the updateMembers call in flight
  delPlace,      \* per user: the deletePlace call in flight
  removed        \* history: per user the maps removed from the list and not rejoined

detailVars == <<dbEdited, addOpen, editing, savingPlace, memb, delPlace, removed>>

\* The add/edit dialog of MapDetailScreen: the form draft, pin mode and the
\* location search.
VARIABLES
  tab,           \* per user: MapDetailScreen's tab, "map" or "list"
  detailPin,     \* per user: MapDetailScreen's pinMode
  closure,       \* per user: the pinMode prop the SpotMap view was mounted with
  form,          \* per user: MapDetailScreen's form (the draft)
  captured,      \* history: per user the long-presses taken since pin mode was turned on
  geoQuery,      \* per user: MapDetailScreen's geoQuery
  geoResults,    \* per user: MapDetailScreen's geoResults
  geoStatus,     \* per user: MapDetailScreen's geoStatus
  geoLoading,    \* per user: MapDetailScreen's geoLoading
  geoTimeout,    \* per user: geoTimeout.current, a timer id (0 = null)
  geoTimers,     \* the setTimeout timers of searchLocation that are pending
  geoFlight,     \* the requests to the geocoding endpoint that are not answered
  timerClock,    \* the last timer id handed out by setTimeout
  lastTyped,     \* history: per user the text of the last searchLocation call
  geoSent        \* history: the requests sent, each with the last text typed then

formVars == <<tab, detailPin, closure, form, captured, geoQuery, geoResults, geoStatus,
              geoLoading, geoTimeout, geoTimers, geoFlight, timerClock, lastTyped,
              geoSent>>

appVars == <<dbMaps, dbPlaces, dbUserMaps, clock, placeClock, deleted, deletedPlaces,
             session, maps, screen, activeMap, joinOpen, joinCode, joinError, saving,
             alert, load, join, create, linkQ, del, save, detailVars, formVars>>

vars == <<viewVars, appVars>>

mapVars == <<mapRef, ready, markersRef, mapObjs, leafletId, lmapCalls>>

GeoTask(i) == [k |-> "geo", i |-> i, c |-> <<>>]
TimerTask(i, c) == [k |-> "timer", i |-> i, c |-> c]
RafTask(i, c) == [k |-> "raf", i |-> i, c |-> c]

\* setTimeout(() => map.invalidateSize(), ...) and the location request whose
\* success callback is map.flyTo: both hold on to the map m they were made for.
InvalTask(i, m) == [k |-> "inval", i |-> i, c |-> <<m>>]
FlyTask(i, m) == [k |-> "fly", i |-> i, c |-> <<m>>]
\* The 100 ms wait of the element poll of an initSequence: the next loop
\* index, the element the last lookup returned (0 = null), and the pinMode
\* its closure holds (1 = true).
SmTask(i, n, el, pin) == [k |-> "sm", i |-> i, c |-> <<n, el, pin>>]
\* An initSequence waits for the onload of the script tag it appended.
OnloadTask(i, pin) == [k |-> "onload", i |-> i, c |-> <<pin>>]
Bit(b) == IF b THEN 1 ELSE 0

One(t) == SetToBag({t})

MapIds == 1..Len(mapObjs)

InitView ==
  /\ phase = [i \in Inst |-> "new"]
  /\ variant = [i \in Inst |-> "none"]
  /\ places = [i \in Inst |-> {}]
  /\ pinMode = [i \in Inst |-> FALSE]
  /\ closurePin = [i \in Inst |-> FALSE]
  /\ mapRef = [i \in Inst |-> 0]
  /\ ready = [i \in Inst |-> FALSE]
  /\ markersRef = [i \in Inst |-> [map |-> 0, on |-> NoMarkers]]
  /\ interval = [i \in Inst |-> FALSE]
  /\ attempts = [i \in Inst |-> 0]
  /\ link = [i \in Inst |-> FALSE]
  /\ script = [i \in Inst |-> "none"]
  /\ LDefined = FALSE
  /\ geoAvailable \in BOOLEAN
  /\ tasks = EmptyBag
  /\ mapObjs = <<>>
  /\ leafletId = [i \in Inst |-> 0]
  /\ lmapCalls = [i \in Inst |-> 0]
  /\ gesture = [view |-> 0, pinNow |-> FALSE, delivered |-> FALSE]
  /\ geoAnswer = [i \in Inst |-> "none"]
  /\ height = [i \in Inst |-> FALSE]
  /\ builtOn = {}
  /\ lateOps = {}
  /\ iframeReady = [i \in Inst |-> FALSE]
  /\ frameDoc = [i \in Inst |-> "none"]
  /\ frameMarkers = [i \in Inst |-> NoMarkers]
  /\ msgs = {}
  /\ earlyUpdate = {}
  /\ frameCalls = {}

\* ---------------------------------------------------- shared handler pieces
\* A handler that ends without touching a map.
Skip(tb) == tasks' = tb /\ UNCHANGED mapVars

\* The marker effect (deps [places, ready]) of instance i on map m:
\* remove every tracked marker, then add one per place that passes the filter.
MarkerEffect(i, objs, m, ps) ==
  LET old == markersRef[i]
      o1 == IF old.map # 0
              THEN [objs EXCEPT ![old.map].markers =
                      [p \in PlaceIds |-> IF @[p] > old.on[p] THEN @[p] - old.on[p] ELSE 0]]
              ELSE objs
      add == MarkersFor(ps)
      o2 == [o1 EXCEPT ![m].markers = [p \in PlaceIds |-> @[p] + add[p]]]
  IN /\ mapObjs' = o2
     /\ markersRef' = [markersRef EXCEPT ![i] = [map |-> m, on |-> add]]

\* L.map(el).setView(c) succeeded: the rest of the constructing code.
\* mapRef is set, the contextmenu handler closes over the mount closure's
\* pinMode, setReady(true) re-renders a mounted component and so runs the
\* marker effect.
Construct(i, el, c, tb, attached) ==
  LET m == Len(mapObjs) + 1
      obj == [owner |-> i, el |-> el, center |-> c, pin |-> closurePin'[i],
              live |-> TRUE, markers |-> NoMarkers]
      objs == Append(mapObjs, obj)
  IN /\ mapRef' = [mapRef EXCEPT ![i] = m]
     /\ leafletId' = [leafletId EXCEPT ![el] = m]
     /\ lmapCalls' = [lmapCalls EXCEPT ![i] = @ + 1]
     /\ ready' = [ready EXCEPT ![i] = @ \/ attached]
     /\ IF attached /\ ~ready[i]
          THEN MarkerEffect(i, objs, m, places'[i])
          ELSE mapObjs' = objs /\ UNCHANGED markersRef
     /\ tasks' = tb

\* L.map(el) throws "Map container is already initialized." when the element
\* carries a _leaflet_id.
LMapThrows(i, tb) ==
  /\ lmapCalls' = [lmapCalls EXCEPT ![i] = @ + 1]
  /\ tasks' = tb
  /\ UNCHANGED <<mapRef, ready, markersRef, mapObjs, leafletId>>

LMap(i, el, c, tb, attached) ==
  IF leafletId[el] # 0 THEN LMapThrows(i, tb) ELSE Construct(i, el, c, tb, attached)

\* map.remove() of the instance's map and mapRef.current = null, when set.
RemoveMap(i) ==
  IF mapRef[i] = 0
    THEN UNCHANGED <<mapRef, mapObjs, leafletId>>
    ELSE LET m == mapRef[i] IN
         /\ mapObjs' = [mapObjs EXCEPT ![m].live = FALSE, ![m].markers = NoMarkers]
         /\ leafletId' = [e \in Inst |-> IF leafletId[e] = m THEN 0 ELSE leafletId[e]]
         /\ mapRef' = [mapRef EXCEPT ![i] = 0]

\* After the unmount nothing reads the instance's props or its marker list
\* again; they are cleared so that equal futures are one state.
DropProps(i) ==
  /\ places' = [places EXCEPT ![i] = {}]
  /\ pinMode' = [pinMode EXCEPT ![i] = FALSE]
  /\ markersRef' = [markersRef EXCEPT ![i] = [map |-> 0, on |-> NoMarkers]]

CanMount(i) == phase[i] = "new" /\ \A j \in Inst : j < i => phase[j] # "new"

MountProps(i, v, ps, pm) ==
  /\ phase' = [phase EXCEPT ![i] = "mounted"]
  /\ variant' = [variant EXCEPT ![i] = v]
  /\ places' = [places EXCEPT ![i] = ps]
  /\ pinMode' = [pinMode EXCEPT ![i] = pm]
  /\ closurePin' = [closurePin EXCEPT ![i] = pm]

\* ------------------------------------------------- SpotMap.web.tsx ("web")
\* tryInit of initMap: wait for the container, construct once.
TryInit(i, c, tb, attached) ==
  IF ~attached THEN Skip(tb (+) One(TimerTask(i, c)))
  ELSE IF mapRef[i] # 0 THEN Skip(tb)
  ELSE LMap(i, i, c, tb, attached)

\* initMap: getLocation, then tryInit with the coordinate it yields.
InitMap(i, tb, attached) ==
  IF geoAvailable
    THEN Skip(tb (+) One(GeoTask(i))) /\ UNCHANGED geoAnswer
    ELSE /\ TryInit(i, DEFAULT_LOCATION, tb, attached)
         /\ geoAnswer' = [geoAnswer EXCEPT ![i] = "unavailable"]

\* The mount effects of SpotMap.web.tsx.
MountWeb(i, ps, pm) ==
  /\ CanMount(i)
  /\ MountProps(i, "web", ps, pm)
  /\ IF LDefined
       THEN InitMap(i, tasks, TRUE) /\ UNCHANGED <<link, script>>
       ELSE /\ link' = [link EXCEPT ![i] = TRUE]
            /\ script' = [script EXCEPT ![i] = "loading"]
            /\ Skip(tasks)
            /\ UNCHANGED geoAnswer
  /\ UNCHANGED <<interval, attempts, LDefined, geoAvailable, gesture>>
  /\ UNCHANGED sizeVars
  /\ UNCHANGED frameVars
  /\ UNCHANGED appVars

\* script.onload = () => initMap()
ScriptLoadWeb(i) ==
  /\ variant[i] = "web" /\ script[i] = "loading"
  /\ script' = [script EXCEPT ![i] = "loaded"]
  /\ LDefined' = TRUE
  /\ UNCHANGED <<phase, variant, places, pinMode, closurePin, interval, attempts, link,
                 geoAvailable, gesture>>
  /\ InitMap(i, tasks, phase[i] = "mounted")
  /\ UNCHANGED sizeVars
  /\ UNCHANGED frameVars
  /\ UNCHANGED appVars

\* script.onerror: logged only.
ScriptError(i) ==
  /\ script[i] = "loading"
  /\ script' = [script EXCEPT ![i] = "failed"]
  /\ UNCHANGED <<phase, variant, places, pinMode, closurePin, interval, attempts, link,
                 LDefined, geoAvailable, tasks, gesture, geoAnswer>>
  /\ UNCHANGED mapVars
  /\ UNCHANGED sizeVars
  /\ UNCHANGED frameVars
  /\ UNCHANGED appVars

\* GeoReplyWeb as it would be with no error callback passed to
\* getCurrentPosition: a failed request ends without calling tryInit.
GeoReplyWeb_NoErrorCallback(i, ans, pos) ==
  /\ variant[i] = "web" /\ BagIn(GeoTask(i), tasks)
  /\ UNCHANGED <<phase, variant, places, pinMode, closurePin, interval, attempts, link,
                 script, LDefined, geoAvailable, gesture>>
  /\ IF ans = "ok"
       THEN TryInit(i, pos, tasks (-) One(GeoTask(i)), phase[i] = "mounted")
       ELSE Skip(tasks (-) One(GeoTask(i)))
  /\ geoAnswer' = [geoAnswer EXCEPT ![i] = ans]
  /\ UNCHANGED sizeVars
  /\ UNCHANGED frameVars
  /\ UNCHANGED appVars

\* getCurrentPosition answers: success with a position, or error.
GeoReplyWeb(i, ans, pos) ==
  /\ variant[i] = "web" /\ BagIn(GeoTask(i), tasks)
  /\ UNCHANGED <<phase, variant, places, pinMode, closurePin, interval, attempts, link,
                 script, LDefined, geoAvailable, gesture>>
  /\ TryInit(i, IF ans = "ok" THEN pos ELSE DEFAULT_LOCATION,
             tasks (-) One(GeoTask(i)), phase[i] = "mounted")
  /\ geoAnswer' = [geoAnswer EXCEPT ![i] = ans]
  /\ UNCHANGED sizeVars
  /\ UNCHANGED frameVars
  /\ UNCHANGED appVars

\* setTimeout(tryInit, 50) fires.
TimerWeb(i, c) ==
  /\ variant[i] = "web" /\ BagIn(TimerTask(i, c), tasks)
  /\ UNCHANGED <<phase, variant, places, pinMode, closurePin, interval, attempts, link,
                 script, LDefined, geoAvailable, gesture, geoAnswer>>
  /\ TryInit(i, c, tasks (-) One(TimerTask(i, c)), phase[i] = "mounted")
  /\ UNCHANGED sizeVars
  /\ UNCHANGED frameVars
  /\ UNCHANGED appVars

\* The cleanup effect.
UnmountWeb(i) ==
  /\ variant[i] = "web" /\ phase[i] = "mounted"
  /\ phase' = [phase EXCEPT ![i] = "gone"]
  /\ RemoveMap(i)
  /\ DropProps(i)
  /\ UNCHANGED <<variant, closurePin, ready, interval, attempts, link, script, LDefined,
                 geoAvailable, tasks, lmapCalls, gesture, geoAnswer>>
  /\ UNCHANGED sizeVars
  /\ UNCHANGED frameVars
  /\ UNCHANGED appVars

\* ------------------------------------------------------------ props, events
\* The parent renders the view with another place list: the marker effect runs.
SetPlaces(i, ps) ==
  /\ phase[i] = "mounted" /\ ps # places[i]
  /\ places' = [places EXCEPT ![i] = ps]
  /\ IF mapRef[i] # 0 /\ ready[i] /\ LDefined
       THEN MarkerEffect(i, mapObjs, mapRef[i], ps)
       ELSE UNCHANGED <<mapObjs, markersRef>>
  /\ UNCHANGED <<phase, variant, pinMode, closurePin, mapRef, ready, interval, attempts,
                 link, script, LDefined, geoAvailable, tasks, leafletId, lmapCalls,
                 gesture, geoAnswer>>
  /\ UNCHANGED sizeVars
  /\ UNCHANGED frameVars
  /\ UNCHANGED appVars

\* The parent renders the view with another pinMode: no effect depends on it.
SetPinMode(i, b) ==
  /\ phase[i] = "mounted" /\ b # pinMode[i]
  /\ pinMode' = [pinMode EXCEPT ![i] = b]
  /\ UNCHANGED <<phase, variant, places, closurePin, interval, attempts, link, script,
                 LDefined, geoAvailable, tasks, gesture, geoAnswer>>
  /\ UNCHANGED mapVars
  /\ UNCHANGED sizeVars
  /\ UNCHANGED frameVars
  /\ UNCHANGED appVars

\* A right-click / long-press on the live map shown in a mounted container:
\* map.on("contextmenu", e => { if (pinMode) onLongPress(...) }).
ContextMenu(m) ==
  /\ m \in MapIds /\ mapObjs[m].live /\ phase[mapObjs[m].el] = "mounted"
  /\ gesture' = [view |-> mapObjs[m].el, pinNow |-> pinMode[mapObjs[m].el],
                 delivered |-> mapObjs[m].pin]
  /\ UNCHANGED <<phase, variant, places, pinMode, closurePin, interval, attempts, link,
                 script, LDefined, geoAvailable, tasks, geoAnswer>>
  /\ UNCHANGED mapVars
  /\ UNCHANGED sizeVars
  /\ UNCHANGED frameVars
  /\ UNCHANGED appVars

\* ------------------------------------------------ polling variants, shared
\* document.querySelector('link[href*="leaflet.css"]') finds a tag
LinkTagPresent == \E j \in Inst : link[j]
\* document.querySelector('script[src*="leaflet.js"]') finds a tag
ScriptTagPresent == \E j \in Inst : script[j] # "none"

\* Inject the stylesheet and the script unless a tag is there already.
InjectIfAbsent(i) ==
  /\ link' = [link EXCEPT ![i] = ~LinkTagPresent]
  /\ script' = [script EXCEPT ![i] = IF ScriptTagPresent THEN "none" ELSE "loading"]

\* A script tag without an onload handler finishes loading.
ScriptLoadPoll(i) ==
  /\ variant[i] \in {"p000", "p002", "p003"} /\ script[i] = "loading"
  /\ script' = [script EXCEPT ![i] = "loaded"]
  /\ LDefined' = TRUE
  /\ UNCHANGED <<phase, variant, places, pinMode, closurePin, interval, attempts, link,
                 geoAvailable, tasks, gesture, geoAnswer>>
  /\ UNCHANGED mapVars
  /\ UNCHANGED sizeVars
  /\ UNCHANGED frameVars
  /\ UNCHANGED appVars

\* ------------------------------------------- unnamed/part_000 WebMap ("p000")
PollLimit == 50

MountP000(i, ps, pm) ==
  /\ CanMount(i)
  /\ MountProps(i, "p000", ps, pm)
  /\ InjectIfAbsent(i)
  /\ interval' = [interval EXCEPT ![i] = TRUE]
  /\ attempts' = [attempts EXCEPT ![i] = 0]
  /\ Skip(tasks)
  /\ UNCHANGED <<LDefined, geoAvailable, gesture, geoAnswer>>
  /\ UNCHANGED sizeVars
  /\ UNCHANGED frameVars
  /\ UNCHANGED appVars

\* createMap: guard, then construct in the next animation frame.
CreateMapP000(i, c, tb, attached) ==
  IF ~attached \/ mapRef[i] # 0 THEN Skip(tb) ELSE Skip(tb (+) One(RafTask(i, c)))

\* TickP000 as it would be without the clearInterval before the location
\* request: the interval keeps ticking and asks for the location again.
TickP000_KeepsPolling(i) ==
  /\ variant[i] = "p000" /\ interval[i]
  /\ UNCHANGED <<phase, variant, places, pinMode, closurePin, link, script, LDefined,
                 geoAvailable, gesture>>
  /\ LET a == attempts[i] + 1 IN
     IF ~LDefined \/ phase[i] # "mounted" \/ a > PollLimit
       THEN /\ interval' = [interval EXCEPT ![i] = ~(a > PollLimit)]
            /\ attempts' = [attempts EXCEPT ![i] = IF a > PollLimit THEN 0 ELSE a]
            /\ Skip(tasks)
            /\ UNCHANGED geoAnswer
       ELSE /\ attempts' = [attempts EXCEPT ![i] = a]
            /\ UNCHANGED interval
            /\ IF geoAvailable
                 THEN Skip(tasks (+) One(GeoTask(i))) /\ UNCHANGED geoAnswer
                 ELSE /\ CreateMapP000(i, DEFAULT_LOCATION, tasks, TRUE)
                      /\ geoAnswer' = [geoAnswer EXCEPT ![i] = "unavailable"]
  /\ UNCHANGED sizeVars
  /\ UNCHANGED frameVars
  /\ UNCHANGED appVars

\* One tick of the 100 ms interval.  The counter is local to the effect and
\* is not read once the interval is cleared, so it is zeroed then.
TickP000(i) ==
  /\ variant[i] = "p000" /\ interval[i]
  /\ UNCHANGED <<phase, variant, places, pinMode, closurePin, link, script, LDefined,
                 geoAvailable, gesture>>
  /\ LET a == attempts[i] + 1 IN
     IF ~LDefined \/ phase[i] # "mounted" \/ a > PollLimit
       THEN /\ interval' = [interval EXCEPT ![i] = ~(a > PollLimit)]
            /\ attempts' = [attempts EXCEPT ![i] = IF a > PollLimit THEN 0 ELSE a]
            /\ Skip(tasks)
            /\ UNCHANGED geoAnswer
       ELSE /\ interval' = [interval EXCEPT ![i] = FALSE]
            /\ attempts' = [attempts EXCEPT ![i] = 0]
            /\ IF geoAvailable
                 THEN Skip(tasks (+) One(GeoTask(i))) /\ UNCHANGED geoAnswer
                 ELSE /\ CreateMapP000(i, DEFAULT_LOCATION, tasks, TRUE)
                      /\ geoAnswer' = [geoAnswer EXCEPT ![i] = "unavailable"]
  /\ UNCHANGED sizeVars
  /\ UNCHANGED frameVars
  /\ UNCHANGED appVars

\* getCurrentPosition(..., { timeout: 5000 }) answers: success, error or timeout.
GeoReplyP000(i, ans, pos) ==
  /\ variant[i] = "p000" /\ BagIn(GeoTask(i), tasks)
  /\ UNCHANGED <<phase, variant, places, pinMode, closurePin, interval, attempts, link,
                 script, LDefined, geoAvailable, gesture>>
  /\ CreateMapP000(i, IF ans = "ok" THEN pos ELSE DEFAULT_LOCATION,
                   tasks (-) One(GeoTask(i)), phase[i] = "mounted")
  /\ geoAnswer' = [geoAnswer EXCEPT ![i] = ans]
  /\ UNCHANGED sizeVars
  /\ UNCHANGED frameVars
  /\ UNCHANGED appVars

\* The requestAnimationFrame callback: try { L.map(containerRef.current!) ... }
\* catch.  A null container makes L.map throw as an initialised one does.
RafP000(i, c) ==
  /\ variant[i] = "p000" /\ BagIn(RafTask(i, c), tasks)
  /\ UNCHANGED <<phase, variant, places, pinMode, closurePin, interval, attempts, link,
                 script, LDefined, geoAvailable, gesture, geoAnswer>>
  /\ IF phase[i] # "mounted"
       THEN LMapThrows(i, tasks (-) One(RafTask(i, c)))
       ELSE LMap(i, i, c, tasks (-) One(RafTask(i, c)), TRUE)
  /\ UNCHANGED sizeVars
  /\ UNCHANGED frameVars
  /\ UNCHANGED appVars

UnmountP000(i) ==
  /\ variant[i] = "p000" /\ phase[i] = "mounted"
  /\ phase' = [phase EXCEPT ![i] = "gone"]
  /\ interval' = [interval EXCEPT ![i] = FALSE]
  /\ attempts' = [attempts EXCEPT ![i] = 0]
  /\ RemoveMap(i)
  /\ DropProps(i)
  /\ UNCHANGED <<variant, closurePin, ready, link, script, LDefined, geoAvailable, tasks,
                 lmapCalls, gesture, geoAnswer>>
  /\ UNCHANGED sizeVars
  /\ UNCHANGED frameVars
  /\ UNCHANGED appVars

\* ------------------------------------------ unnamed/part_003 SpotMap ("p003")
\* document.getElementById("spotjar-leaflet-map"): the container of a mounted
\* view that renders this id (the first in document order), 0 when none.
ElById ==
  LET S == {j \in Inst : phase[j] = "mounted" /\ variant[j] \in {"p002", "p003"}}
  IN IF S = {} THEN 0 ELSE CHOOSE j \in S : \A k \in S : j <= k

MountP003(i, ps, pm) ==
  /\ CanMount(i)
  /\ MountProps(i, "p003", ps, pm)
  /\ InjectIfAbsent(i)
  /\ interval' = [interval EXCEPT ![i] = TRUE]
  /\ Skip(tasks)
  /\ UNCHANGED <<attempts, LDefined, geoAvailable, gesture, geoAnswer>>
  /\ UNCHANGED sizeVars
  /\ UNCHANGED frameVars
  /\ UNCHANGED appVars

\* createMap: looks the container up by id again, guards on its own mapRef.
CreateMapP003(i, c, tb) ==
  IF ElById = 0 \/ mapRef[i] # 0 THEN Skip(tb)
  ELSE LMap(i, ElById, c, tb, phase[i] = "mounted")

\* One tick of the 100 ms interval (its attempt counter is only logged).
TickP003(i) ==
  /\ variant[i] = "p003" /\ interval[i]
  /\ UNCHANGED <<phase, variant, places, pinMode, closurePin, attempts, link, script,
                 LDefined, geoAvailable, gesture>>
  /\ IF ~LDefined \/ ElById = 0
       THEN Skip(tasks) /\ UNCHANGED <<interval, geoAnswer>>
       ELSE /\ interval' = [interval EXCEPT ![i] = FALSE]
            /\ IF mapRef[i] # 0
                 THEN Skip(tasks) /\ UNCHANGED geoAnswer
                 ELSE IF geoAvailable
                   THEN Skip(tasks (+) One(GeoTask(i))) /\ UNCHANGED geoAnswer
                   ELSE /\ CreateMapP003(i, DEFAULT_LOCATION, tasks)
                        /\ geoAnswer' = [geoAnswer EXCEPT ![i] = "unavailable"]
  /\ UNCHANGED sizeVars
  /\ UNCHANGED frameVars
  /\ UNCHANGED appVars

GeoReplyP003(i, ans, pos) ==
  /\ variant[i] = "p003" /\ BagIn(GeoTask(i), tasks)
  /\ UNCHANGED <<phase, variant, places, pinMode, closurePin, interval, attempts, link,
                 script, LDefined, geoAvailable, gesture>>
  /\ CreateMapP003(i, IF ans = "ok" THEN pos ELSE DEFAULT_LOCATION,
                   tasks (-) One(GeoTask(i)))
  /\ geoAnswer' = [geoAnswer EXCEPT ![i] = ans]
  /\ UNCHANGED sizeVars
  /\ UNCHANGED frameVars
  /\ UNCHANGED appVars

UnmountP003(i) ==
  /\ variant[i] = "p003" /\ phase[i] = "mounted"
  /\ phase' = [phase EXCEPT ![i] = "gone"]
  /\ interval' = [interval EXCEPT ![i] = FALSE]
  /\ RemoveMap(i)
  /\ DropProps(i)
  /\ UNCHANGED <<variant, closurePin, ready, attempts, link, script, LDefined,
                 geoAvailable, tasks, lmapCalls, gesture, geoAnswer>>
  /\ UNCHANGED sizeVars
  /\ UNCHANGED frameVars
  /\ UNCHANGED appVars

\* ------------------------------------------- SpotMap.tsx NativeMap ("native")
\* The first render: MapView with initialRegion at center = location ||
\* DEFAULT_LOCATION, location still null; the markers are drawn by the render.
\* The component has no placeholder: the map is there from the first render.
MountNative(i, ps, pm) ==
  /\ CanMount(i)
  /\ MountProps(i, "native", ps, pm)
  /\ mapObjs' = Append(mapObjs, [owner |-> i, el |-> i, center |-> DEFAULT_LOCATION,
                                 pin |-> pm, live |-> TRUE, markers |-> MarkersFor(ps)])
  /\ mapRef' = [mapRef EXCEPT ![i] = Len(mapObjs) + 1]
  /\ ready' = [ready EXCEPT ![i] = TRUE]
  /\ IF geoAvailable
       THEN tasks' = tasks (+) One(GeoTask(i)) /\ UNCHANGED geoAnswer
       ELSE tasks' = tasks /\ geoAnswer' = [geoAnswer EXCEPT ![i] = "unavailable"]
  /\ UNCHANGED <<markersRef, leafletId, lmapCalls, interval, attempts, link, script,
                 LDefined, geoAvailable, gesture>>
  /\ UNCHANGED sizeVars
  /\ UNCHANGED frameVars
  /\ UNCHANGED appVars

\* getCurrentPosition answers: setLocation(position or DEFAULT_LOCATION).  The
\* next render passes the new initialRegion; whether a mounted MapView moves
\* to it is the library's choice.
GeoReplyNative(i, ans, pos, moves) ==
  /\ variant[i] = "native" /\ BagIn(GeoTask(i), tasks)
  /\ tasks' = tasks (-) One(GeoTask(i))
  /\ geoAnswer' = [geoAnswer EXCEPT ![i] = ans]
  /\ mapObjs' = IF phase[i] = "mounted" /\ moves
                  THEN [mapObjs EXCEPT ![mapRef[i]].center =
                          IF ans = "ok" THEN pos ELSE DEFAULT_LOCATION]
                  ELSE mapObjs
  /\ UNCHANGED <<phase, variant, places, pinMode, closurePin, mapRef, ready, markersRef,
                 interval, attempts, link, script, LDefined, geoAvailable, leafletId,
                 lmapCalls, gesture>>
  /\ UNCHANGED sizeVars
  /\ UNCHANGED frameVars
  /\ UNCHANGED appVars

UnmountNative(i) ==
  /\ variant[i] = "native" /\ phase[i] = "mounted"
  /\ phase' = [phase EXCEPT ![i] = "gone"]
  /\ RemoveMap(i)
  /\ DropProps(i)
  /\ UNCHANGED <<variant, closurePin, ready, interval, attempts, link, script, LDefined,
                 geoAvailable, tasks, lmapCalls, gesture, geoAnswer>>
  /\ UNCHANGED sizeVars
  /\ UNCHANGED frameVars
  /\ UNCHANGED appVars

\* ------------------------------------- views that wait for a laid-out element
\* The container of a mounted view gets its layout size.
Layout(el) ==
  /\ phase[el] = "mounted" /\ ~height[el]
  /\ height' = [height EXCEPT ![el] = TRUE]
  /\ UNCHANGED <<builtOn, lateOps>>
  /\ UNCHANGED <<phase, variant, places, pinMode, closurePin, interval, attempts, link,
                 script, LDefined, geoAvailable, tasks, gesture, geoAnswer>>
  /\ UNCHANGED mapVars
  /\ UNCHANGED frameVars
  /\ UNCHANGED appVars

\* The body both views run on the element el they settled on: L.map(el)
\* .setView(DEFAULT_LOCATION), mapRef, the invalidateSize timer, the
\* contextmenu handler, setReady(true) and, with fly, the location request
\* whose answer flies the map; all inside try/catch.  mounted: the component
\* is mounted; att, h: the element is in the document, and has a height.
InitLeaflet(i, el, tb, fly, mounted, att, h) ==
  LET m == Len(mapObjs) + 1
      tflies == IF fly /\ geoAvailable THEN One(FlyTask(i, m)) ELSE EmptyBag
  IN IF leafletId[el] # 0
       THEN LMapThrows(i, tb) /\ UNCHANGED builtOn
       ELSE /\ Construct(i, el, DEFAULT_LOCATION, tb (+) One(InvalTask(i, m)) (+) tflies,
                         mounted)
            /\ builtOn' = builtOn \cup {[m |-> m, attached |-> att, height |-> h]}

\* The invalidateSize timer fires.
InvalTimer(i, m) ==
  /\ BagIn(InvalTask(i, m), tasks)
  /\ tasks' = tasks (-) One(InvalTask(i, m))
  /\ lateOps' = IF mapObjs[m].live THEN lateOps ELSE lateOps \cup {<<m, "invalidateSize">>}
  /\ UNCHANGED <<height, builtOn>>
  /\ UNCHANGED <<phase, variant, places, pinMode, closurePin, interval, attempts, link,
                 script, LDefined, geoAvailable, gesture, geoAnswer>>
  /\ UNCHANGED mapVars
  /\ UNCHANGED frameVars
  /\ UNCHANGED appVars

\* getCurrentPosition(pos => map.flyTo(...), null, { timeout: 5000 }) answers.
FlyReply(i, m, ans, pos) ==
  /\ BagIn(FlyTask(i, m), tasks)
  /\ tasks' = tasks (-) One(FlyTask(i, m))
  /\ geoAnswer' = [geoAnswer EXCEPT ![i] = ans]
  /\ mapObjs' = IF ans = "ok" /\ mapObjs[m].live
                  THEN [mapObjs EXCEPT ![m].center = pos] ELSE mapObjs
  /\ lateOps' = IF ans = "ok" /\ ~mapObjs[m].live
                  THEN lateOps \cup {<<m, "flyTo">>} ELSE lateOps
  /\ UNCHANGED <<height, builtOn>>
  /\ UNCHANGED <<phase, variant, places, pinMode, closurePin, interval, attempts, link,
                 script, LDefined, geoAvailable, gesture>>
  /\ UNCHANGED <<mapRef, ready, markersRef, leafletId, lmapCalls>>
  /\ UNCHANGED frameVars
  /\ UNCHANGED appVars

\* ------------------------------------------ unnamed/part_002 SpotMap ("p002")
\* MAP_CONTAINER_ID is the id part_003 uses: ElById is the lookup.
\* createMap: looks the container up by id again, guards on its own ref.
CreateMapP002(i, el, c, tb, mounted) ==
  IF el = 0 \/ mapRef[i] # 0 THEN Skip(tb)
  ELSE LMap(i, el, c, tb, mounted)

\* The callback handed to waitForL; el is what the lookup by id returns.
CallbackP002(i, el, tb, mounted) ==
  IF el = 0 \/ mapRef[i] # 0
    THEN Skip(tb) /\ UNCHANGED geoAnswer
    ELSE IF geoAvailable
      THEN Skip(tb (+) One(GeoTask(i))) /\ UNCHANGED geoAnswer
      ELSE /\ CreateMapP002(i, el, DEFAULT_LOCATION, tb, mounted)
           /\ geoAnswer' = [geoAnswer EXCEPT ![i] = "unavailable"]

\* The mount effect: inject the tags unless present, then waitForL, which
\* calls back at once with window.L defined and polls every 50 ms otherwise.
MountP002(i, ps, pm) ==
  /\ CanMount(i)
  /\ MountProps(i, "p002", ps, pm)
  /\ InjectIfAbsent(i)
  /\ IF LDefined
       THEN /\ CallbackP002(i, IF ElById = 0 THEN i ELSE ElById, tasks, TRUE)
            /\ UNCHANGED interval
       ELSE /\ interval' = [interval EXCEPT ![i] = TRUE]
            /\ Skip(tasks) /\ UNCHANGED geoAnswer
  /\ UNCHANGED <<attempts, LDefined, geoAvailable, gesture>>
  /\ UNCHANGED sizeVars
  /\ UNCHANGED frameVars
  /\ UNCHANGED appVars

\* One tick of the interval of waitForL: it counts nothing and tests only
\* window.L.
TickP002(i) ==
  /\ variant[i] = "p002" /\ interval[i]
  /\ UNCHANGED <<phase, variant, places, pinMode, closurePin, attempts, link, script,
                 LDefined, geoAvailable, gesture>>
  /\ IF LDefined
       THEN /\ interval' = [interval EXCEPT ![i] = FALSE]
            /\ CallbackP002(i, ElById, tasks, phase[i] = "mounted")
       ELSE Skip(tasks) /\ UNCHANGED <<interval, geoAnswer>>
  /\ UNCHANGED sizeVars
  /\ UNCHANGED frameVars
  /\ UNCHANGED appVars

GeoReplyP002(i, ans, pos) ==
  /\ variant[i] = "p002" /\ BagIn(GeoTask(i), tasks)
  /\ UNCHANGED <<phase, variant, places, pinMode, closurePin, interval, attempts, link,
                 script, LDefined, geoAvailable, gesture>>
  /\ CreateMapP002(i, ElById, IF ans = "ok" THEN pos ELSE DEFAULT_LOCATION,
                   tasks (-) One(GeoTask(i)), phase[i] = "mounted")
  /\ geoAnswer' = [geoAnswer EXCEPT ![i] = ans]
  /\ UNCHANGED sizeVars
  /\ UNCHANGED frameVars
  /\ UNCHANGED appVars

\* The cleanup of the mount effect: the map is removed; the interval of
\* waitForL is out of its reach.
UnmountP002(i) ==
  /\ variant[i] = "p002" /\ phase[i] = "mounted"
  /\ phase' = [phase EXCEPT ![i] = "gone"]
  /\ RemoveMap(i)
  /\ DropProps(i)
  /\ UNCHANGED <<variant, closurePin, ready, interval, attempts, link, script, LDefined,
                 geoAvailable, tasks, lmapCalls, gesture, geoAnswer>>
  /\ UNCHANGED sizeVars
  /\ UNCHANGED frameVars
  /\ UNCHANGED appVars

\* ------------------------------------------- unnamed/part_001 WebMap ("p001")
\* injectAssets: without window.L a stylesheet tag unless one is there, and a
\* script tag of its own whose onload starts the poll; with it, the poll.
MountP001(i, ps, pm, h) ==
  /\ CanMount(i)
  /\ MountProps(i, "p001", ps, pm)
  /\ height' = [height EXCEPT ![i] = h]
  /\ UNCHANGED <<builtOn, lateOps>>
  /\ IF LDefined
       THEN /\ interval' = [interval EXCEPT ![i] = TRUE]
            /\ attempts' = [attempts EXCEPT ![i] = 0]
            /\ UNCHANGED <<link, script>>
       ELSE /\ link' = [link EXCEPT ![i] = ~LinkTagPresent]
            /\ script' = [script EXCEPT ![i] = "loading"]
            /\ UNCHANGED <<interval, attempts>>
  /\ Skip(tasks)
  /\ UNCHANGED <<LDefined, geoAvailable, gesture, geoAnswer>>
  /\ UNCHANGED frameVars
  /\ UNCHANGED appVars

\* script.onload = () => startInitialization()
ScriptLoadP001(i) ==
  /\ variant[i] = "p001" /\ script[i] = "loading"
  /\ script' = [script EXCEPT ![i] = "loaded"]
  /\ LDefined' = TRUE
  /\ interval' = [interval EXCEPT ![i] = TRUE]
  /\ attempts' = [attempts EXCEPT ![i] = 0]
  /\ UNCHANGED <<phase, variant, places, pinMode, closurePin, link, geoAvailable, tasks,
                 gesture, geoAnswer>>
  /\ UNCHANGED mapVars
  /\ UNCHANGED sizeVars
  /\ UNCHANGED frameVars
  /\ UNCHANGED appVars

\* One tick of checkExist.  The element with this view's id exists while the
\* view is mounted.  The counter is zeroed when the interval is cleared.
TickP001(i) ==
  /\ variant[i] = "p001" /\ interval[i]
  /\ UNCHANGED <<phase, variant, places, pinMode, closurePin, link, script, LDefined,
                 geoAvailable, gesture, geoAnswer>>
  /\ LET found == LDefined /\ phase[i] = "mounted" /\ height[i]
         stop == found \/ attempts[i] > PollLimit IN
     /\ interval' = [interval EXCEPT ![i] = ~stop]
     /\ attempts' = [attempts EXCEPT ![i] = IF stop THEN 0 ELSE @ + 1]
     /\ IF found /\ mapRef[i] = 0
          THEN InitLeaflet(i, i, tasks, TRUE, TRUE, TRUE, TRUE)
          ELSE Skip(tasks) /\ UNCHANGED builtOn
  /\ UNCHANGED <<height, lateOps>>
  /\ UNCHANGED frameVars
  /\ UNCHANGED appVars

\* The cleanup of the mount effect: the map is removed, the interval is not
\* cleared.
UnmountP001(i) ==
  /\ variant[i] = "p001" /\ phase[i] = "mounted"
  /\ phase' = [phase EXCEPT ![i] = "gone"]
  /\ RemoveMap(i)
  /\ DropProps(i)
  /\ UNCHANGED <<variant, closurePin, ready, interval, attempts, link, script, LDefined,
                 geoAvailable, tasks, lmapCalls, gesture, geoAnswer>>
  /\ UNCHANGED sizeVars
  /\ UNCHANGED frameVars
  /\ UNCHANGED appVars

\* --------------------------- components/_SpotMap.tsx WebMap ("sm30", "sm40")
\* The first WebMap of the file polls 30 times for its own element (useId)
\* and asks for the location; the third polls 40 times for a fixed id and
\* does not.  The init effect has pinMode and onLongPress among its deps:
\* it runs at the mount and again on a render with another pinMode or
\* onLongPress, and each run starts an initSequence that nothing cancels.
PollSm30 == 30
PollSm40 == 40
SmLimit(v) == IF v = "sm30" THEN PollSm30 ELSE PollSm40

\* document.getElementById(containerId): the view's own element for sm30, the
\* first mounted element with the fixed id for sm40; 0 when there is none.
\* ph and vr are the phases and variants at the time of the lookup.
ElSm(i, ph, vr) ==
  IF vr[i] = "sm30"
    THEN IF ph[i] = "mounted" THEN i ELSE 0
    ELSE LET S == {j \in Inst : ph[j] = "mounted" /\ vr[j] = "sm40"}
         IN IF S = {} THEN 0 ELSE CHOOSE j \in S : \A k \in S : j <= k

\* After the loop: if (!element || mapRef.current) return; then the body.
AfterLoop(i, el, tb, ph, vr, hs) ==
  IF el = 0 \/ mapRef[i] # 0
    THEN Skip(tb) /\ UNCHANGED builtOn
    ELSE InitLeaflet(i, el, tb, vr[i] = "sm30", ph[i] = "mounted", ph[el] = "mounted",
                     hs[el])

\* The loop of an initSequence from index n, up to its next await: el is the
\* element of the lookup before, pin the sequence's pinMode, hs the heights.
SmLoop(i, n, el, pin, tb, ph, vr, hs) ==
  IF n >= SmLimit(vr[i])
    THEN AfterLoop(i, el, tb, ph, vr, hs)
    ELSE LET element == ElSm(i, ph, vr) IN
         IF element # 0 /\ hs[element]
           THEN AfterLoop(i, element, tb, ph, vr, hs)
           ELSE Skip(tb (+) One(SmTask(i, n + 1, element, pin))) /\ UNCHANGED builtOn

\* initSequence up to its first await: without window.L it appends a script
\* and a stylesheet tag and waits for the script's onload.
MountSm(i, v, ps, pm, h) ==
  /\ CanMount(i)
  /\ MountProps(i, v, ps, pm)
  /\ height' = [height EXCEPT ![i] = h]
  /\ IF LDefined
       THEN /\ UNCHANGED <<link, script>>
            /\ SmLoop(i, 0, 0, Bit(pm), tasks, phase', variant', height')
       ELSE /\ link' = [link EXCEPT ![i] = TRUE]
            /\ script' = [script EXCEPT ![i] = "loading"]
            /\ Skip(tasks (+) One(OnloadTask(i, Bit(pm)))) /\ UNCHANGED builtOn
  /\ UNCHANGED <<interval, attempts, LDefined, geoAvailable, gesture, geoAnswer>>
  /\ UNCHANGED lateOps
  /\ UNCHANGED frameVars
  /\ UNCHANGED appVars

\* script.onload = resolve: the initSequence that appended the tag goes on
\* with the loop.  (The tags of one view load or fail together.)
ScriptLoadSm(i, pin) ==
  /\ variant[i] \in {"sm30", "sm40"} /\ script[i] \in {"loading", "loaded"}
  /\ BagIn(OnloadTask(i, pin), tasks)
  /\ script' = [script EXCEPT ![i] = "loaded"]
  /\ LDefined' = TRUE
  /\ closurePin' = [closurePin EXCEPT ![i] = pin = 1]
  /\ UNCHANGED <<phase, variant, places, pinMode, interval, attempts, link,
                 geoAvailable, gesture, geoAnswer>>
  /\ SmLoop(i, 0, 0, pin, tasks (-) One(OnloadTask(i, pin)), phase, variant, height)
  /\ UNCHANGED <<height, lateOps>>
  /\ UNCHANGED frameVars
  /\ UNCHANGED appVars

\* The 100 ms wait of the loop is over.
SmTimer(i, n, el, pin) ==
  /\ BagIn(SmTask(i, n, el, pin), tasks)
  /\ closurePin' = [closurePin EXCEPT ![i] = pin = 1]
  /\ UNCHANGED <<phase, variant, places, pinMode, interval, attempts, link,
                 script, LDefined, geoAvailable, gesture, geoAnswer>>
  /\ SmLoop(i, n, el, pin, tasks (-) One(SmTask(i, n, el, pin)), phase, variant, height)
  /\ UNCHANGED <<height, lateOps>>
  /\ UNCHANGED frameVars
  /\ UNCHANGED appVars

\* The parent renders the view with pinMode pm and, as on every render of
\* MapDetailScreen, another onLongPress function: the init effect's cleanup
\* removes the map, then the effect runs initSequence again.  The marker
\* effect (deps [places, ready, onMarkerPress]) does not run: the place list
\* and ready are as before, and onMarkerPress is the parent's state setter.
\* A sequence that finds window.L and a sized element at once constructs
\* within the same effect run.
RerunSm(i, pm) ==
  /\ variant[i] \in {"sm30", "sm40"} /\ phase[i] = "mounted"
  /\ pinMode' = [pinMode EXCEPT ![i] = pm]
  /\ closurePin' = [closurePin EXCEPT ![i] = pm]
  /\ LET old == mapRef[i]
         objs0 == IF old = 0 THEN mapObjs
                  ELSE [mapObjs EXCEPT ![old].live = FALSE, ![old].markers = NoMarkers]
         lid0 == [e \in Inst |-> IF old # 0 /\ leafletId[e] = old THEN 0 ELSE leafletId[e]]
         element == ElSm(i, phase, variant)
         m == Len(mapObjs) + 1
         obj == [owner |-> i, el |-> element, center |-> DEFAULT_LOCATION, pin |-> pm,
                 live |-> TRUE, markers |-> NoMarkers]
         tflies == IF variant[i] = "sm30" /\ geoAvailable THEN One(FlyTask(i, m)) ELSE EmptyBag
     IN IF ~LDefined
          THEN /\ link' = [link EXCEPT ![i] = TRUE]
               /\ script' = [script EXCEPT ![i] = "loading"]
               /\ tasks' = tasks (+) One(OnloadTask(i, Bit(pm)))
               /\ mapObjs' = objs0 /\ leafletId' = lid0
               /\ mapRef' = [mapRef EXCEPT ![i] = 0]
               /\ UNCHANGED <<ready, markersRef, lmapCalls, builtOn>>
          ELSE IF ~height[element]
            THEN /\ tasks' = tasks (+) One(SmTask(i, 1, element, Bit(pm)))
                 /\ mapObjs' = objs0 /\ leafletId' = lid0
                 /\ mapRef' = [mapRef EXCEPT ![i] = 0]
                 /\ UNCHANGED <<link, script, ready, markersRef, lmapCalls, builtOn>>
            ELSE IF lid0[element] # 0
              THEN /\ lmapCalls' = [lmapCalls EXCEPT ![i] = @ + 1]
                   /\ mapObjs' = objs0 /\ leafletId' = lid0
                   /\ mapRef' = [mapRef EXCEPT ![i] = 0]
                   /\ UNCHANGED <<link, script, tasks, ready, markersRef, builtOn>>
              ELSE /\ lmapCalls' = [lmapCalls EXCEPT ![i] = @ + 1]
                   /\ mapRef' = [mapRef EXCEPT ![i] = m]
                   /\ leafletId' = [lid0 EXCEPT ![element] = m]
                   /\ ready' = [ready EXCEPT ![i] = TRUE]
                   /\ IF ~ready[i]
                        THEN MarkerEffect(i, Append(objs0, obj), m, places[i])
                        ELSE mapObjs' = Append(objs0, obj) /\ UNCHANGED markersRef
                   /\ tasks' = tasks (+) One(InvalTask(i, m)) (+) tflies
                   /\ builtOn' = builtOn \cup {[m |-> m, attached |-> TRUE, height |-> TRUE]}
                   /\ UNCHANGED <<link, script>>
  /\ UNCHANGED <<phase, variant, places, interval, attempts, LDefined, geoAvailable,
                 gesture, geoAnswer>>
  /\ UNCHANGED <<height, lateOps>>
  /\ UNCHANGED frameVars
  /\ UNCHANGED appVars

\* The cleanup of the mount effect.
UnmountSm(i) ==
  /\ variant[i] \in {"sm30", "sm40"} /\ phase[i] = "mounted"
  /\ phase' = [phase EXCEPT ![i] = "gone"]
  /\ RemoveMap(i)
  /\ DropProps(i)
  /\ UNCHANGED <<variant, closurePin, ready, interval, attempts, link, script, LDefined,
                 geoAvailable, tasks, lmapCalls, gesture, geoAnswer>>
  /\ UNCHANGED sizeVars
  /\ UNCHANGED frameVars
  /\ UNCHANGED appVars

\* ------------------------- components/_SpotMap.tsx WebMap in an iframe ("frame")
\* A message of the page to window.parent: type, the view whose iframe
\* posted it, and the place of a markerClick (0 otherwise).
FrameMsg(k, from, p) == [k |-> k, from |-> from, p |-> p]

\* The views whose handleMessage is registered on the window.
Listening == {j \in Inst : phase[j] = "mounted" /\ variant[j] = "frame"}

\* setMap: without the iframe nothing, else the page becomes the iframe's src.
SetMapFrame(i) ==
  frameDoc' = [frameDoc EXCEPT ![i] = IF phase'[i] = "mounted" THEN "loading" ELSE @]

\* The three mount effects: the message listener, the updateMarkers effect
\* (iframeReady is false: it returns) and the location effect.
MountFrame(i, ps, pm) ==
  /\ CanMount(i)
  /\ MountProps(i, "frame", ps, pm)
  /\ IF geoAvailable
       THEN /\ tasks' = tasks (+) One(GeoTask(i))
            /\ frameDoc' = [frameDoc EXCEPT ![i] = "blank"]
            /\ UNCHANGED geoAnswer
       ELSE /\ SetMapFrame(i)
            /\ geoAnswer' = [geoAnswer EXCEPT ![i] = "unavailable"]
            /\ UNCHANGED tasks
  /\ UNCHANGED <<iframeReady, frameMarkers, msgs, earlyUpdate, frameCalls>>
  /\ UNCHANGED <<interval, attempts, link, script, LDefined, geoAvailable, gesture>>
  /\ UNCHANGED mapVars
  /\ UNCHANGED sizeVars
  /\ UNCHANGED appVars

\* getCurrentPosition answers: setMap at the position or at DEFAULT_LOCATION.
GeoReplyFrame(i, ans) ==
  /\ variant[i] = "frame" /\ BagIn(GeoTask(i), tasks)
  /\ tasks' = tasks (-) One(GeoTask(i))
  /\ geoAnswer' = [geoAnswer EXCEPT ![i] = ans]
  /\ UNCHANGED <<phase, variant, places, pinMode, closurePin, interval, attempts, link,
                 script, LDefined, geoAvailable, gesture>>
  /\ SetMapFrame(i)
  /\ UNCHANGED <<iframeReady, frameMarkers, msgs, earlyUpdate, frameCalls>>
  /\ UNCHANGED mapVars
  /\ UNCHANGED sizeVars
  /\ UNCHANGED appVars

\* The page of the iframe has loaded and its script runs: with Leaflet it
\* builds the map, listens for updateMarkers and posts ready; without
\* (leaflet.js did not load) L.map throws and nothing is posted.
FrameLoad(i, ok) ==
  /\ frameDoc[i] = "loading"
  /\ frameDoc' = [frameDoc EXCEPT ![i] = IF ok THEN "page" ELSE "broken"]
  /\ msgs' = IF ok THEN msgs \cup {FrameMsg("ready", i, 0)} ELSE msgs
  /\ UNCHANGED <<iframeReady, frameMarkers, earlyUpdate, frameCalls>>
  /\ UNCHANGED <<phase, variant, places, pinMode, closurePin, interval, attempts, link,
                 script, LDefined, geoAvailable, tasks, gesture, geoAnswer>>
  /\ UNCHANGED mapVars
  /\ UNCHANGED sizeVars
  /\ UNCHANGED appVars

\* The updateMarkers effect of the views in S, each with the place list ps[j]:
\* postMessage to the iframe's window.  A page replaces its markers by those
\* that pass its filter; a window without the page has no listener.
PostUpdate(S, ps) ==
  /\ frameMarkers' = [j \in Inst |-> IF j \in S /\ frameDoc[j] = "page"
                                        THEN MarkersFor(ps[j]) ELSE frameMarkers[j]]
  /\ earlyUpdate' = earlyUpdate \cup {j \in S : frameDoc[j] # "page"}

\* The window dispatches a message: handleMessage of every listening view
\* runs, whichever iframe posted it.
HandleMessage(msg) ==
  /\ msg \in msgs
  /\ msgs' = msgs \ {msg}
  /\ IF msg.k = "ready"
       THEN /\ iframeReady' = [j \in Inst |-> iframeReady[j] \/ j \in Listening]
            /\ PostUpdate({j \in Listening : ~iframeReady[j]}, places)
            /\ frameCalls' = {}
       ELSE /\ frameCalls' =
                 {[to |-> j, from |-> msg.from, k |-> msg.k,
                   live |-> iframeReady[j] /\ frameDoc[j] = "page"] :
                  j \in {l \in Listening : msg.k = "markerClick" \/ pinMode[l]}}
            /\ UNCHANGED <<iframeReady, frameMarkers, earlyUpdate>>
  /\ UNCHANGED frameDoc
  /\ UNCHANGED <<phase, variant, places, pinMode, closurePin, interval, attempts, link,
                 script, LDefined, geoAvailable, tasks, gesture, geoAnswer>>
  /\ UNCHANGED mapVars
  /\ UNCHANGED sizeVars
  /\ UNCHANGED appVars

\* The parent renders the view with another place list: with iframeReady the
\* effect posts it.
SetPlacesFrame(i, ps) ==
  /\ phase[i] = "mounted" /\ variant[i] = "frame" /\ ps # places[i]
  /\ places' = [places EXCEPT ![i] = ps]
  /\ IF iframeReady[i]
       THEN PostUpdate({i}, places')
       ELSE UNCHANGED <<frameMarkers, earlyUpdate>>
  /\ UNCHANGED <<iframeReady, frameDoc, msgs, frameCalls>>
  /\ UNCHANGED <<phase, variant, pinMode, closurePin, interval, attempts, link, script,
                 LDefined, geoAvailable, tasks, gesture, geoAnswer>>
  /\ UNCHANGED mapVars
  /\ UNCHANGED sizeVars
  /\ UNCHANGED appVars

\* A contextmenu on the map of the page, or a click on one of its markers.
FrameEvent(i, k, p) ==
  /\ frameDoc[i] = "page"
  /\ \/ k = "longpress" /\ p = 0
     \/ k = "markerClick" /\ p \in PlaceIds /\ frameMarkers[i][p] > 0
  /\ FrameMsg(k, i, p) \notin msgs
  /\ msgs' = msgs \cup {FrameMsg(k, i, p)}
  /\ UNCHANGED <<iframeReady, frameDoc, frameMarkers, earlyUpdate, frameCalls>>
  /\ UNCHANGED <<phase, variant, places, pinMode, closurePin, interval, attempts, link,
                 script, LDefined, geoAvailable, tasks, gesture, geoAnswer>>
  /\ UNCHANGED mapVars
  /\ UNCHANGED sizeVars
  /\ UNCHANGED appVars

\* The unmount: the listener is removed and the iframe leaves the document;
\* what its page had posted stays queued on the window.
UnmountFrame(i) ==
  /\ variant[i] = "frame" /\ phase[i] = "mounted"
  /\ phase' = [phase EXCEPT ![i] = "gone"]
  /\ DropProps(i)
  /\ iframeReady' = [iframeReady EXCEPT ![i] = FALSE]
  /\ frameDoc' = [frameDoc EXCEPT ![i] = "none"]
  /\ frameMarkers' = [frameMarkers EXCEPT ![i] = NoMarkers]
  /\ UNCHANGED <<msgs, earlyUpdate, frameCalls>>
  /\ UNCHANGED <<variant, closurePin, mapRef, ready, interval, attempts, link, script,
                 LDefined, geoAvailable, tasks, mapObjs, leafletId, lmapCalls, gesture,
                 geoAnswer>>
  /\ UNCHANGED sizeVars
  /\ UNCHANGED appVars

\* ------------------------------------------------- SpotMap.tsx: application
NUsers == 2
MaxMapId == 11
MaxPlaceId == 201
FewPlaces == 2
MaxJoinerPlaces == 1
CodeMaps == 2
OnePlace == 1
AppMaps == 1
\* setTimeout calls of searchLocation in a behaviour
MaxTimers == 3
\* long-presses taken after one press of the drop-a-pin button
MaxCaptures == 2
MaxUnlisted == 1
MaxPending == 1

Users == 1..NUsers
MapId == 1..MaxMapId
PlaceId == 1..MaxPlaceId

MAX_MAPS == 10
MAX_PLACES == 200
JOIN_MISS == "No map found with that code. Check with your friend!"

\* generateCode draws six characters at random and upper-cases them.
Codes == {"ABC123", "XYZ789"}
\* What a user can type into the code field.
TypedCodes == Codes \cup {"abc123"}
ToUpperCase(s) == IF s = "abc123" THEN "ABC123" ELSE s
\* A code no other map has, for runs in which every draw is a new one.
FreshCode(n) == "M" \o ToString(n)

NoMap == [owner |-> 0, code |-> ""]
\* An entry of a local list: a maps row with its places; edited are the places
\* of it whose fields are those of an update.
NoEntry == [id |-> 0, owner |-> 0, places |-> {}, edited |-> {}]
LoadIdle == [pc |-> "idle", ids |-> {}, mapsData |-> {}]
JoinIdle == [pc |-> "idle", code |-> "", found |-> NoEntry, own |-> FALSE]
CreateIdle == [pc |-> "idle", id |-> 0, code |-> "", own |-> FALSE]
AddIdle == [pc |-> "idle", id |-> 0, mapList |-> NoEntry, own |-> FALSE]
MembIdle == [pc |-> "idle", mapList |-> NoEntry]
DelPlaceIdle == [pc |-> "idle", id |-> 0, mapList |-> NoEntry]
\* useState<Partial<Place>>({}): every field of the draft is optional, <<>>
\* when it is not set.
FormEmpty == [id |-> <<>>, name |-> <<>>, rating |-> <<>>, lat |-> <<>>, lng |-> <<>>]
\* The fields a stored place has in the list (it was saved with a name and
\* coordinates).
PlaceFields(p) ==
  [id |-> <<p>>, name |-> <<"n">>, rating |-> <<3>>, lat |-> <<492800 + p>>,
   lng |-> <<-1231200>>]

InitApp ==
  /\ dbMaps = [m \in MapId |-> NoMap]
  /\ dbPlaces = {}
  /\ dbUserMaps = {}
  /\ clock = 0
  /\ placeClock = 0
  /\ deleted = {}
  /\ deletedPlaces = {}
  /\ session = [u \in Users |-> FALSE]
  /\ maps = [u \in Users |-> {}]
  /\ screen = [u \in Users |-> "home"]
  /\ activeMap = [u \in Users |-> NoEntry]
  /\ joinOpen = [u \in Users |-> FALSE]
  /\ joinCode = [u \in Users |-> ""]
  /\ joinError = [u \in Users |-> ""]
  /\ saving = [u \in Users |-> FALSE]
  /\ alert = [u \in Users |-> ""]
  /\ load = [u \in Users |-> LoadIdle]
  /\ join = [u \in Users |-> JoinIdle]
  /\ create = [u \in Users |-> CreateIdle]
  /\ linkQ = {}
  /\ del = [u \in Users |-> 0]
  /\ save = [u \in Users |-> AddIdle]
  /\ dbEdited = {}
  /\ addOpen = [u \in Users |-> FALSE]
  /\ editing = [u \in Users |-> 0]
  /\ savingPlace = [u \in Users |-> FALSE]
  /\ memb = [u \in Users |-> MembIdle]
  /\ delPlace = [u \in Users |-> DelPlaceIdle]
  /\ removed = [u \in Users |-> {}]
  /\ tab = [u \in Users |-> "map"]
  /\ detailPin = [u \in Users |-> FALSE]
  /\ closure = [u \in Users |-> FALSE]
  /\ form = [u \in Users |-> FormEmpty]
  /\ captured = [u \in Users |-> 0]
  /\ geoQuery = [u \in Users |-> <<>>]
  /\ geoResults = [u \in Users |-> <<>>]
  /\ geoStatus = [u \in Users |-> "idle"]
  /\ geoLoading = [u \in Users |-> FALSE]
  /\ geoTimeout = [u \in Users |-> 0]
  /\ geoTimers = {}
  /\ geoFlight = {}
  /\ timerClock = 0
  /\ lastTyped = [u \in Users |-> <<>>]
  /\ geoSent = {}

\* Ids of the entries of a local list.
ListIds(ms) == {e.id : e \in ms}

\* select("*").in("map_id", ids) on places, and the ids of the rows of one map
\* among rows read.
PlacesIn(ids) == {r \in dbPlaces : r[2] \in ids}
PlacesOf(rows, m) == {r[1] : r \in {x \in rows : x[2] = m}}

\* The backend's DELETE of a maps row.  The places of the map go with it
\* (ON DELETE CASCADE); whether its user_maps rows go too is not stated.
DbDeleteMap(m, casc) ==
  /\ dbMaps' = [dbMaps EXCEPT ![m] = NoMap]
  /\ dbPlaces' = {r \in dbPlaces : r[2] # m}
  /\ dbUserMaps' = IF casc THEN {r \in dbUserMaps : r[2] # m} ELSE dbUserMaps

\* The backend accepts a places row only for a map that exists (the foreign
\* key the cascade hangs on).
DbAcceptsPlace(m) == dbMaps[m] # NoMap

\* useEffect(() => { if (session) loadMaps(); }, [session]) after a sign-in.
SignIn(u) ==
  /\ ~session[u] /\ load[u].pc = "idle"
  /\ session' = [session EXCEPT ![u] = TRUE]
  /\ load' = [load EXCEPT ![u] = [LoadIdle EXCEPT !.pc = "userMaps"]]
  /\ UNCHANGED <<dbMaps, dbPlaces, dbUserMaps, clock, placeClock, deleted,
                 deletedPlaces, maps, screen, activeMap, joinOpen, joinCode, joinError,
                 saving, alert, join, create, linkQ, del, save>>
  /\ UNCHANGED detailVars
  /\ UNCHANGED formVars
  /\ UNCHANGED viewVars

\* loadMaps, first await: the user's user_maps rows.
LoadUserMaps(u, ok) ==
  /\ load[u].pc = "userMaps"
  /\ LET ids == {m \in MapId : <<u, m>> \in dbUserMaps} IN
     /\ alert' = [alert EXCEPT ![u] = IF ok THEN @ ELSE "Error loading data"]
     /\ maps' = [maps EXCEPT ![u] = IF ok /\ ids = {} THEN {} ELSE @]
     /\ load' = [load EXCEPT ![u] = IF ok /\ ids # {}
                                      THEN [pc |-> "maps", ids |-> ids, mapsData |-> {}]
                                      ELSE LoadIdle]
  /\ UNCHANGED <<dbMaps, dbPlaces, dbUserMaps, clock, placeClock, deleted,
                 deletedPlaces, session, screen, activeMap, joinOpen, joinCode,
                 joinError, saving, join, create, linkQ, del, save>>
  /\ UNCHANGED detailVars
  /\ UNCHANGED formVars
  /\ UNCHANGED viewVars

\* loadMaps, second await: the maps rows with those ids.
LoadMapsData(u, ok) ==
  /\ load[u].pc = "maps"
  /\ alert' = [alert EXCEPT ![u] = IF ok THEN @ ELSE "Error loading data"]
  /\ load' = [load EXCEPT ![u] =
       IF ok THEN [@ EXCEPT !.pc = "places",
                            !.mapsData = {[id |-> m, owner |-> dbMaps[m].owner] :
                                            m \in {x \in load[u].ids : dbMaps[x] # NoMap}}]
             ELSE LoadIdle]
  /\ UNCHANGED <<dbMaps, dbPlaces, dbUserMaps, clock, placeClock, deleted,
                 deletedPlaces, session, maps, screen, activeMap, joinOpen, joinCode,
                 joinError, saving, join, create, linkQ, del, save>>
  /\ UNCHANGED detailVars
  /\ UNCHANGED formVars
  /\ UNCHANGED viewVars

\* loadMaps, third await: the places of those ids, then setMaps(combined).
LoadPlaces(u, ok) ==
  /\ load[u].pc = "places"
  /\ alert' = [alert EXCEPT ![u] = IF ok THEN @ ELSE "Error loading data"]
  /\ maps' = [maps EXCEPT ![u] =
       IF ok THEN LET placesData == PlacesIn(load[u].ids) IN
                  {[id |-> r.id, owner |-> r.owner, places |-> PlacesOf(placesData, r.id),
                    edited |-> PlacesOf(placesData, r.id) \cap dbEdited] :
                     r \in load[u].mapsData}
             ELSE @]
  /\ load' = [load EXCEPT ![u] = LoadIdle]
  /\ UNCHANGED <<dbMaps, dbPlaces, dbUserMaps, clock, placeClock, deleted,
                 deletedPlaces, session, screen, activeMap, joinOpen, joinCode,
                 joinError, saving, join, create, linkQ, del, save>>
  /\ UNCHANGED detailVars
  /\ UNCHANGED formVars
  /\ UNCHANGED viewVars

\* myMapsCount of HomeScreen.
myMapsCount(u) == Cardinality({e \in maps[u] : e.owner = u})

\* handleCreate up to its await (a name has been entered).
CreatePress(u, code) ==
  /\ session[u] /\ screen[u] = "home" /\ ~saving[u] /\ create[u].pc = "idle"
  /\ clock < MaxMapId
  /\ IF myMapsCount(u) >= MAX_MAPS
       THEN /\ alert' = [alert EXCEPT ![u] = "Map limit reached"]
            /\ UNCHANGED <<saving, clock, create>>
       ELSE /\ saving' = [saving EXCEPT ![u] = TRUE]
            /\ clock' = clock + 1
            /\ create' = [create EXCEPT ![u] =
                 [pc |-> "insert", id |-> clock + 1, code |-> code, own |-> TRUE]]
            /\ UNCHANGED alert
  /\ UNCHANGED <<dbMaps, dbPlaces, dbUserMaps, placeClock, deleted, deletedPlaces,
                 session, maps, screen, activeMap, joinOpen, joinCode, joinError, load,
                 join, linkQ, del, save>>
  /\ UNCHANGED detailVars
  /\ UNCHANGED formVars
  /\ UNCHANGED viewVars

\* handleCreate after the insert into maps; onMapCreated starts its own insert.
CreateReply(u, ok) ==
  /\ create[u].pc = "insert"
  /\ dbMaps' = IF ok THEN [dbMaps EXCEPT ![create[u].id] = [owner |-> u, code |-> create[u].code]]
                     ELSE dbMaps
  /\ linkQ' = IF ok THEN linkQ \cup {<<u, create[u].id>>} ELSE linkQ
  /\ alert' = [alert EXCEPT ![u] = IF ok THEN @ ELSE "Error creating map"]
  /\ saving' = [saving EXCEPT ![u] = IF create[u].own THEN FALSE ELSE @]
  /\ create' = [create EXCEPT ![u] = CreateIdle]
  /\ UNCHANGED <<dbPlaces, dbUserMaps, clock, placeClock, deleted, deletedPlaces,
                 session, maps, screen, activeMap, joinOpen, joinCode, joinError, load,
                 join, del, save>>
  /\ UNCHANGED detailVars
  /\ UNCHANGED formVars
  /\ UNCHANGED viewVars

\* onMapCreated after its insert into user_maps (the result is not looked at).
LinkReply(u, m, ok) ==
  /\ <<u, m>> \in linkQ
  /\ linkQ' = linkQ \ {<<u, m>>}
  /\ dbUserMaps' = IF ok THEN dbUserMaps \cup {<<u, m>>} ELSE dbUserMaps
  /\ maps' = [maps EXCEPT ![u] = @ \cup {[id |-> m, owner |-> u, places |-> {}, edited |-> {}]}]
  /\ UNCHANGED <<dbMaps, dbPlaces, clock, placeClock, deleted, deletedPlaces, session,
                 screen, activeMap, joinOpen, joinCode, joinError, saving, alert, load,
                 join, create, del, save>>
  /\ UNCHANGED detailVars
  /\ UNCHANGED formVars
  /\ UNCHANGED viewVars

\* onRemove, from the edit mode of the home list.
Remove(u, e) ==
  /\ session[u] /\ screen[u] = "home" /\ ~joinOpen[u] /\ e \in maps[u]
  /\ maps' = [maps EXCEPT ![u] = {x \in @ : x.id # e.id}]
  /\ removed' = [removed EXCEPT ![u] = @ \cup {e.id}]
  /\ UNCHANGED <<dbMaps, dbPlaces, dbUserMaps, clock, placeClock, deleted,
                 deletedPlaces, session, screen, activeMap, joinOpen, joinCode,
                 joinError, saving, alert, load, join, create, linkQ, del, save>>
  /\ UNCHANGED <<dbEdited, addOpen, editing, savingPlace, memb, delPlace>>
  /\ UNCHANGED formVars
  /\ UNCHANGED viewVars

\* HomeScreen goes away: its state is gone, and what its handlers in flight
\* still set on it is dropped.
LeaveHome(u, j) ==
  /\ joinOpen' = [joinOpen EXCEPT ![u] = FALSE]
  /\ joinCode' = [joinCode EXCEPT ![u] = ""]
  /\ joinError' = [joinError EXCEPT ![u] = ""]
  /\ saving' = [saving EXCEPT ![u] = FALSE]
  /\ join' = [join EXCEPT ![u] = IF j.pc = "idle" THEN JoinIdle ELSE [j EXCEPT !.own = FALSE]]
  /\ create' = [create EXCEPT ![u] = IF @.pc = "idle" THEN @ ELSE [@ EXCEPT !.own = FALSE]]

\* MapDetailScreen goes away: its state is gone, and what its savePlace in
\* flight, its lookup timer and its lookups in flight still set on it is
\* dropped (nothing clears the timer).
LeaveMap(u) ==
  /\ addOpen' = [addOpen EXCEPT ![u] = FALSE]
  /\ editing' = [editing EXCEPT ![u] = 0]
  /\ savingPlace' = [savingPlace EXCEPT ![u] = FALSE]
  /\ save' = [save EXCEPT ![u] = IF @.pc = "idle" THEN @ ELSE [@ EXCEPT !.own = FALSE]]
  /\ tab' = [tab EXCEPT ![u] = "map"]
  /\ detailPin' = [detailPin EXCEPT ![u] = FALSE]
  /\ closure' = [closure EXCEPT ![u] = FALSE]
  /\ form' = [form EXCEPT ![u] = FormEmpty]
  /\ captured' = [captured EXCEPT ![u] = 0]
  /\ geoQuery' = [geoQuery EXCEPT ![u] = <<>>]
  /\ geoResults' = [geoResults EXCEPT ![u] = <<>>]
  /\ geoStatus' = [geoStatus EXCEPT ![u] = "idle"]
  /\ geoLoading' = [geoLoading EXCEPT ![u] = FALSE]
  /\ geoTimeout' = [geoTimeout EXCEPT ![u] = 0]
  /\ geoTimers' = {IF t.u = u THEN [t EXCEPT !.own = FALSE] ELSE t : t \in geoTimers}
  /\ geoFlight' = {IF r.u = u THEN [r EXCEPT !.own = FALSE] ELSE r : r \in geoFlight}
  /\ lastTyped' = [lastTyped EXCEPT ![u] = <<>>]
  /\ UNCHANGED <<timerClock, geoSent>>
  /\ UNCHANGED <<dbEdited, memb, delPlace, removed>>

\* openMap, from a card of the home list.
OpenMap(u, e) ==
  /\ session[u] /\ screen[u] = "home" /\ ~joinOpen[u] /\ e \in maps[u]
  /\ activeMap' = [activeMap EXCEPT ![u] = e]
  /\ screen' = [screen EXCEPT ![u] = "map"]
  /\ LeaveHome(u, join[u])
  /\ UNCHANGED <<dbMaps, dbPlaces, dbUserMaps, clock, placeClock, deleted,
                 deletedPlaces, session, maps, alert, load, linkQ, del, save>>
  /\ UNCHANGED detailVars
  /\ UNCHANGED formVars
  /\ UNCHANGED viewVars

\* onBack of the map screen: setScreen("home"); loadMaps().
Back(u) ==
  /\ session[u] /\ screen[u] = "map" /\ load[u].pc = "idle"
  /\ screen' = [screen EXCEPT ![u] = "home"]
  /\ load' = [load EXCEPT ![u] = [LoadIdle EXCEPT !.pc = "userMaps"]]
  /\ LeaveMap(u)
  /\ UNCHANGED <<dbMaps, dbPlaces, dbUserMaps, clock, placeClock, deleted,
                 deletedPlaces, session, maps, activeMap, joinOpen, joinCode,
                 joinError, saving, alert, join, create, linkQ, del>>
  /\ UNCHANGED viewVars

OpenJoin(u) ==
  /\ session[u] /\ screen[u] = "home" /\ ~joinOpen[u]
  /\ joinOpen' = [joinOpen EXCEPT ![u] = TRUE]
  /\ UNCHANGED <<dbMaps, dbPlaces, dbUserMaps, clock, placeClock, deleted,
                 deletedPlaces, session, maps, screen, activeMap, joinCode, joinError,
                 saving, alert, load, join, create, linkQ, del, save>>
  /\ UNCHANGED detailVars
  /\ UNCHANGED formVars
  /\ UNCHANGED viewVars

\* The close control of the join dialog.
CloseJoin(u) ==
  /\ joinOpen[u]
  /\ joinOpen' = [joinOpen EXCEPT ![u] = FALSE]
  /\ joinCode' = [joinCode EXCEPT ![u] = ""]
  /\ joinError' = [joinError EXCEPT ![u] = ""]
  /\ UNCHANGED <<dbMaps, dbPlaces, dbUserMaps, clock, placeClock, deleted,
                 deletedPlaces, session, maps, screen, activeMap, saving, alert, load,
                 join, create, linkQ, del, save>>
  /\ UNCHANGED detailVars
  /\ UNCHANGED formVars
  /\ UNCHANGED viewVars

\* onChangeText of the code field.
TypeCode(u, t) ==
  /\ joinOpen[u] /\ ToUpperCase(t) # joinCode[u]
  /\ joinCode' = [joinCode EXCEPT ![u] = ToUpperCase(t)]
  /\ joinError' = [joinError EXCEPT ![u] = ""]
  /\ UNCHANGED <<dbMaps, dbPlaces, dbUserMaps, clock, placeClock, deleted,
                 deletedPlaces, session, maps, screen, activeMap, joinOpen, saving,
                 alert, load, join, create, linkQ, del, save>>
  /\ UNCHANGED detailVars
  /\ UNCHANGED formVars
  /\ UNCHANGED viewVars

\* handleJoin up to the first await of onMapJoined.
JoinPress(u) ==
  /\ joinOpen[u] /\ join[u].pc = "idle"
  /\ join' = [join EXCEPT ![u] =
       [pc |-> "lookup", code |-> ToUpperCase(joinCode[u]), found |-> NoEntry, own |-> TRUE]]
  /\ UNCHANGED <<dbMaps, dbPlaces, dbUserMaps, clock, placeClock, deleted,
                 deletedPlaces, session, maps, screen, activeMap, joinOpen, joinCode,
                 joinError, saving, alert, load, create, linkQ, del, save>>
  /\ UNCHANGED detailVars
  /\ UNCHANGED formVars
  /\ UNCHANGED viewVars

\* The maps rows a code selects.
ByCode(c) == {m \in MapId : dbMaps[m] # NoMap /\ dbMaps[m].code = c}

\* JoinLookup as it would be if handleJoin took every answer for a success:
\* without data the dialog is closed and cleared.
JoinLookup_MissClosesDialog(u, ok) ==
  /\ join[u].pc = "lookup"
  /\ LET hit == ByCode(join[u].code) IN
     IF ok /\ Cardinality(hit) = 1
       THEN /\ join' = [join EXCEPT ![u] =
                  [@ EXCEPT !.pc = "places",
                            !.found = LET m == CHOOSE x \in hit : TRUE IN
                                      [id |-> m, owner |-> dbMaps[m].owner, places |-> {},
                                       edited |-> {}]]]
            /\ UNCHANGED <<joinOpen, joinCode, joinError>>
       ELSE /\ join' = [join EXCEPT ![u] = JoinIdle]
            /\ joinOpen' = [joinOpen EXCEPT ![u] = IF join[u].own THEN FALSE ELSE @]
            /\ joinCode' = [joinCode EXCEPT ![u] = IF join[u].own THEN "" ELSE @]
            /\ joinError' = [joinError EXCEPT ![u] = IF join[u].own THEN "" ELSE @]
  /\ UNCHANGED <<dbMaps, dbPlaces, dbUserMaps, clock, placeClock, deleted,
                 deletedPlaces, session, maps, screen, activeMap, saving, alert, load,
                 create, linkQ, del, save>>
  /\ UNCHANGED detailVars
  /\ UNCHANGED formVars
  /\ UNCHANGED viewVars

\* onMapJoined after select("*").eq("code", ...).single(): data is the row when
\* exactly one row matches and the request succeeds.  Without data it returns
\* false and handleJoin sets joinError.
JoinLookup(u, ok) ==
  /\ join[u].pc = "lookup"
  /\ LET hit == ByCode(join[u].code) IN
     IF ok /\ Cardinality(hit) = 1
       THEN /\ join' = [join EXCEPT ![u] =
                  [@ EXCEPT !.pc = "places",
                            !.found = LET m == CHOOSE x \in hit : TRUE IN
                                      [id |-> m, owner |-> dbMaps[m].owner, places |-> {},
                                       edited |-> {}]]]
            /\ UNCHANGED joinError
       ELSE /\ join' = [join EXCEPT ![u] = JoinIdle]
            /\ joinError' = [joinError EXCEPT ![u] = IF join[u].own THEN JOIN_MISS ELSE @]
  /\ UNCHANGED <<dbMaps, dbPlaces, dbUserMaps, clock, placeClock, deleted,
                 deletedPlaces, session, maps, screen, activeMap, joinOpen, joinCode,
                 saving, alert, load, create, linkQ, del, save>>
  /\ UNCHANGED detailVars
  /\ UNCHANGED formVars
  /\ UNCHANGED viewVars

\* onMapJoined after the select of the places (placesData || []).
JoinPlaces(u, ok) ==
  /\ join[u].pc = "places"
  /\ join' = [join EXCEPT ![u] =
       LET rows == IF ok THEN PlacesOf(PlacesIn({join[u].found.id}), join[u].found.id) ELSE {} IN
       [@ EXCEPT !.pc = "upsert", !.found.places = rows, !.found.edited = rows \cap dbEdited]]
  /\ UNCHANGED <<dbMaps, dbPlaces, dbUserMaps, clock, placeClock, deleted,
                 deletedPlaces, session, maps, screen, activeMap, joinOpen, joinCode,
                 joinError, saving, alert, load, create, linkQ, del, save>>
  /\ UNCHANGED detailVars
  /\ UNCHANGED formVars
  /\ UNCHANGED viewVars

\* JoinUpsert as it would be if setMaps appended the map without looking for
\* its id in the list.
JoinUpsert_AlwaysAppends(u, ok) ==
  /\ join[u].pc = "upsert"
  /\ LET found == join[u].found IN
     /\ dbUserMaps' = IF ok THEN dbUserMaps \cup {<<u, found.id>>} ELSE dbUserMaps
     /\ maps' = [maps EXCEPT ![u] = @ \cup {found}]
     /\ activeMap' = [activeMap EXCEPT ![u] = found]
     /\ screen' = [screen EXCEPT ![u] = "map"]
  /\ LeaveHome(u, JoinIdle)
  /\ removed' = [removed EXCEPT ![u] = @ \ {join[u].found.id}]
  /\ UNCHANGED <<dbMaps, dbPlaces, clock, placeClock, deleted, deletedPlaces, session,
                 alert, load, linkQ, del, save>>
  /\ UNCHANGED <<dbEdited, addOpen, editing, savingPlace, memb, delPlace>>
  /\ UNCHANGED formVars
  /\ UNCHANGED viewVars

\* onMapJoined after the upsert into user_maps: setMaps, openMap; handleJoin
\* then closes the dialog.
JoinUpsert(u, ok) ==
  /\ join[u].pc = "upsert"
  /\ LET found == join[u].found IN
     /\ dbUserMaps' = IF ok THEN dbUserMaps \cup {<<u, found.id>>} ELSE dbUserMaps
     /\ maps' = [maps EXCEPT ![u] = IF found.id \in ListIds(@) THEN @ ELSE @ \cup {found}]
     /\ activeMap' = [activeMap EXCEPT ![u] = found]
     /\ screen' = [screen EXCEPT ![u] = "map"]
  /\ LeaveHome(u, JoinIdle)
  /\ removed' = [removed EXCEPT ![u] = @ \ {join[u].found.id}]
  /\ UNCHANGED <<dbMaps, dbPlaces, clock, placeClock, deleted, deletedPlaces, session,
                 alert, load, linkQ, del, save>>
  /\ UNCHANGED <<dbEdited, addOpen, editing, savingPlace, memb, delPlace>>
  /\ UNCHANGED formVars
  /\ UNCHANGED viewVars

\* DeletePress as it would be if the delete control were offered to every
\* member.
DeletePress_OfferedToAll(u) ==
  /\ session[u] /\ screen[u] = "map" /\ activeMap[u] # NoEntry /\ del[u] = 0
  /\ del' = [del EXCEPT ![u] = activeMap[u].id]
  /\ UNCHANGED <<dbMaps, dbPlaces, dbUserMaps, clock, placeClock, deleted,
                 deletedPlaces, session, maps, screen, activeMap, joinOpen, joinCode,
                 joinError, saving, alert, load, join, create, linkQ, save>>
  /\ UNCHANGED detailVars
  /\ UNCHANGED formVars
  /\ UNCHANGED viewVars

\* onDelete of the map screen, offered when isOwner: deleteMap up to its await.
DeletePress(u) ==
  /\ session[u] /\ screen[u] = "map" /\ activeMap[u].owner = u /\ del[u] = 0
  /\ del' = [del EXCEPT ![u] = activeMap[u].id]
  /\ UNCHANGED <<dbMaps, dbPlaces, dbUserMaps, clock, placeClock, deleted,
                 deletedPlaces, session, maps, screen, activeMap, joinOpen, joinCode,
                 joinError, saving, alert, load, join, create, linkQ, save>>
  /\ UNCHANGED detailVars
  /\ UNCHANGED formVars
  /\ UNCHANGED viewVars

\* DeleteReply as it would be if deleteMap only filtered the local list: the
\* backend reports a delete that removed no row.
DeleteReply_LocalOnly(u, ok, casc) ==
  /\ del[u] # 0
  /\ LET m == del[u] IN
     /\ IF ok /\ dbMaps[m] # NoMap
          THEN /\ deleted' = deleted \cup {m}
               /\ deletedPlaces' = deletedPlaces \cup PlacesOf(dbPlaces, m)
               /\ UNCHANGED <<dbMaps, dbPlaces, dbUserMaps>>
          ELSE UNCHANGED <<dbMaps, dbPlaces, dbUserMaps, deleted, deletedPlaces>>
     /\ maps' = [maps EXCEPT ![u] = {x \in @ : x.id # m}]
  /\ screen' = [screen EXCEPT ![u] = "home"]
  /\ del' = [del EXCEPT ![u] = 0]
  /\ LeaveMap(u)
  /\ UNCHANGED <<clock, placeClock, session, activeMap, joinOpen, joinCode, joinError,
                 saving, alert, load, join, create, linkQ>>
  /\ UNCHANGED viewVars

\* deleteMap after the delete (its result is not looked at).
DeleteReply(u, ok, casc) ==
  /\ del[u] # 0
  /\ LET m == del[u] IN
     /\ IF ok /\ dbMaps[m] # NoMap
          THEN /\ DbDeleteMap(m, casc)
               /\ deleted' = deleted \cup {m}
               /\ deletedPlaces' = deletedPlaces \cup PlacesOf(dbPlaces, m)
          ELSE UNCHANGED <<dbMaps, dbPlaces, dbUserMaps, deleted, deletedPlaces>>
     /\ maps' = [maps EXCEPT ![u] = {x \in @ : x.id # m}]
  /\ screen' = [screen EXCEPT ![u] = "home"]
  /\ del' = [del EXCEPT ![u] = 0]
  /\ LeaveMap(u)
  /\ UNCHANGED <<clock, placeClock, session, activeMap, joinOpen, joinCode, joinError,
                 saving, alert, load, join, create, linkQ>>
  /\ UNCHANGED viewVars

\* openAdd: the add control (p = 0) or the edit control of a place.
OpenAdd(u, p) ==
  /\ session[u] /\ screen[u] = "map" /\ ~addOpen[u]
  /\ p = 0 \/ p \in activeMap[u].places
  /\ editing' = [editing EXCEPT ![u] = p]
  /\ form' = [form EXCEPT ![u] = IF p = 0 THEN [FormEmpty EXCEPT !.rating = <<0>>]
                                          ELSE PlaceFields(p)]
  /\ geoQuery' = [geoQuery EXCEPT ![u] = <<>>]
  /\ geoResults' = [geoResults EXCEPT ![u] = <<>>]
  /\ geoStatus' = [geoStatus EXCEPT ![u] =
       IF p # 0 /\ Truthy(PlaceFields(p).lat) THEN "success" ELSE "idle"]
  /\ detailPin' = [detailPin EXCEPT ![u] = FALSE]
  /\ addOpen' = [addOpen EXCEPT ![u] = TRUE]
  /\ UNCHANGED <<tab, closure, captured, geoLoading, geoTimeout, geoTimers, geoFlight,
                 timerClock, lastTyped, geoSent>>
  /\ UNCHANGED <<dbMaps, dbPlaces, dbUserMaps, clock, placeClock, deleted,
                 deletedPlaces, session, maps, screen, activeMap, joinOpen, joinCode,
                 joinError, saving, alert, load, join, create, linkQ, del, save>>
  /\ UNCHANGED <<dbEdited, savingPlace, memb, delPlace, removed>>
  /\ UNCHANGED viewVars

\* The close and cancel controls of the add/edit dialog.
CloseAdd(u) ==
  /\ addOpen[u]
  /\ addOpen' = [addOpen EXCEPT ![u] = FALSE]
  /\ UNCHANGED <<dbMaps, dbPlaces, dbUserMaps, clock, placeClock, deleted,
                 deletedPlaces, session, maps, screen, activeMap, joinOpen, joinCode,
                 joinError, saving, alert, load, join, create, linkQ, del, save>>
  /\ UNCHANGED <<dbEdited, editing, savingPlace, memb, delPlace, removed>>
  /\ UNCHANGED formVars
  /\ UNCHANGED viewVars

\* placesCount of MapDetailScreen.
placesCount(u) == Cardinality(activeMap[u].places)

\* savePlace up to its await (a name has been entered): of a new place when
\* editing is null, of the place being edited otherwise.
SavePress(u) ==
  /\ session[u] /\ screen[u] = "map" /\ addOpen[u] /\ ~savingPlace[u]
  /\ save[u].pc = "idle"
  /\ editing[u] # 0 \/ placeClock < MaxPlaceId
  /\ IF editing[u] = 0 /\ placesCount(u) >= MAX_PLACES
       THEN /\ alert' = [alert EXCEPT ![u] = "Place limit reached"]
            /\ UNCHANGED <<placeClock, save, savingPlace>>
       ELSE /\ savingPlace' = [savingPlace EXCEPT ![u] = TRUE]
            /\ placeClock' = IF editing[u] = 0 THEN placeClock + 1 ELSE placeClock
            /\ save' = [save EXCEPT ![u] =
                 IF editing[u] = 0
                   THEN [pc |-> "insert", id |-> placeClock + 1, mapList |-> activeMap[u],
                         own |-> TRUE]
                   ELSE [pc |-> "update", id |-> editing[u], mapList |-> activeMap[u],
                         own |-> TRUE]]
            /\ UNCHANGED alert
  /\ UNCHANGED <<dbMaps, dbPlaces, dbUserMaps, clock, deleted, deletedPlaces, session,
                 maps, screen, activeMap, joinOpen, joinCode, joinError, saving, load,
                 join, create, linkQ, del>>
  /\ UNCHANGED <<dbEdited, addOpen, editing, memb, delPlace, removed>>
  /\ UNCHANGED formVars
  /\ UNCHANGED viewVars

\* updateMapLocally, the onUpdate of the map screen.
updateMapLocally(u, updated) ==
  /\ maps' = [maps EXCEPT ![u] = {IF x.id = updated.id THEN updated ELSE x : x \in @}]
  /\ activeMap' = [activeMap EXCEPT ![u] = updated]

\* SaveReply as it would be if savePlace treated a rejected write like an
\* accepted one: onUpdate and setAddOpen(false) without an alert.
SaveReply_IgnoresError(u, ok) ==
  /\ save[u].pc # "idle"
  /\ LET ml == save[u].mapList
         id == save[u].id
         updated == IF save[u].pc = "insert"
                      THEN [ml EXCEPT !.places = @ \cup {id}]
                      ELSE [ml EXCEPT !.edited = @ \cup ({id} \cap ml.places)] IN
     /\ IF ok /\ (save[u].pc = "update" \/ DbAcceptsPlace(ml.id))
          THEN /\ dbPlaces' = IF save[u].pc = "insert" THEN dbPlaces \cup {<<id, ml.id>>}
                                                       ELSE dbPlaces
               /\ dbEdited' = IF save[u].pc = "update" /\ <<id, ml.id>> \in dbPlaces
                                THEN dbEdited \cup {id} ELSE dbEdited
          ELSE UNCHANGED <<dbPlaces, dbEdited>>
     /\ updateMapLocally(u, updated)
     /\ addOpen' = [addOpen EXCEPT ![u] = IF save[u].own THEN FALSE ELSE @]
     /\ UNCHANGED alert
  /\ savingPlace' = [savingPlace EXCEPT ![u] = IF save[u].own THEN FALSE ELSE @]
  /\ save' = [save EXCEPT ![u] = AddIdle]
  /\ UNCHANGED <<dbMaps, dbUserMaps, clock, placeClock, deleted, deletedPlaces,
                 session, screen, joinOpen, joinCode, joinError, saving, load, join,
                 create, linkQ, del>>
  /\ UNCHANGED <<editing, memb, delPlace, removed>>
  /\ UNCHANGED formVars
  /\ UNCHANGED viewVars

\* savePlace after the insert or the update.  Accepted: onUpdate with the new
\* or the rewritten place, setAddOpen(false).  Rejected: the alert.  Either
\* way setSaving(false).  An update that matches no row is not an error.
SaveReply(u, ok) ==
  /\ save[u].pc # "idle"
  /\ LET ml == save[u].mapList
         id == save[u].id
         updated == IF save[u].pc = "insert"
                      THEN [ml EXCEPT !.places = @ \cup {id}]
                      ELSE [ml EXCEPT !.edited = @ \cup ({id} \cap ml.places)] IN
     IF ok /\ (save[u].pc = "update" \/ DbAcceptsPlace(ml.id))
       THEN /\ dbPlaces' = IF save[u].pc = "insert" THEN dbPlaces \cup {<<id, ml.id>>}
                                                    ELSE dbPlaces
            /\ dbEdited' = IF save[u].pc = "update" /\ <<id, ml.id>> \in dbPlaces
                             THEN dbEdited \cup {id} ELSE dbEdited
            /\ updateMapLocally(u, updated)
            /\ addOpen' = [addOpen EXCEPT ![u] = IF save[u].own THEN FALSE ELSE @]
            /\ UNCHANGED alert
       ELSE /\ alert' = [alert EXCEPT ![u] = "Error saving"]
            /\ UNCHANGED <<dbPlaces, dbEdited, maps, activeMap, addOpen>>
  /\ savingPlace' = [savingPlace EXCEPT ![u] = IF save[u].own THEN FALSE ELSE @]
  /\ save' = [save EXCEPT ![u] = AddIdle]
  /\ UNCHANGED <<dbMaps, dbUserMaps, clock, placeClock, deleted, deletedPlaces,
                 session, screen, joinOpen, joinCode, joinError, saving, load, join,
                 create, linkQ, del>>
  /\ UNCHANGED <<editing, memb, delPlace, removed>>
  /\ UNCHANGED formVars
  /\ UNCHANGED viewVars

\* deletePlace, confirmed in its alert, up to the await.
DeletePlacePress(u, p) ==
  /\ session[u] /\ screen[u] = "map" /\ ~addOpen[u] /\ delPlace[u].pc = "idle"
  /\ p \in activeMap[u].places
  /\ delPlace' = [delPlace EXCEPT ![u] = [pc |-> "delete", id |-> p, mapList |-> activeMap[u]]]
  /\ UNCHANGED <<dbMaps, dbPlaces, dbUserMaps, clock, placeClock, deleted,
                 deletedPlaces, session, maps, screen, activeMap, joinOpen, joinCode,
                 joinError, saving, alert, load, join, create, linkQ, del, save>>
  /\ UNCHANGED <<dbEdited, addOpen, editing, savingPlace, memb, removed>>
  /\ UNCHANGED formVars
  /\ UNCHANGED viewVars

\* deletePlace after the delete (its result is not looked at): onUpdate with
\* the place filtered out.
DeletePlaceReply(u, ok) ==
  /\ delPlace[u].pc = "delete"
  /\ LET ml == delPlace[u].mapList
         id == delPlace[u].id IN
     /\ dbPlaces' = IF ok THEN {r \in dbPlaces : r[1] # id} ELSE dbPlaces
     /\ updateMapLocally(u, [ml EXCEPT !.places = @ \ {id}, !.edited = @ \ {id}])
  /\ delPlace' = [delPlace EXCEPT ![u] = DelPlaceIdle]
  /\ UNCHANGED <<dbMaps, dbUserMaps, clock, placeClock, deleted, deletedPlaces,
                 session, screen, joinOpen, joinCode, joinError, saving, alert, load,
                 join, create, linkQ, del, save>>
  /\ UNCHANGED <<dbEdited, addOpen, editing, savingPlace, memb, removed>>
  /\ UNCHANGED formVars
  /\ UNCHANGED viewVars

\* updateMembers up to its await (a name added or taken off in the members tab).
MembersPress(u) ==
  /\ session[u] /\ screen[u] = "map" /\ ~addOpen[u] /\ memb[u].pc = "idle"
  /\ memb' = [memb EXCEPT ![u] = [pc |-> "update", mapList |-> activeMap[u]]]
  /\ UNCHANGED <<dbMaps, dbPlaces, dbUserMaps, clock, placeClock, deleted,
                 deletedPlaces, session, maps, screen, activeMap, joinOpen, joinCode,
                 joinError, saving, alert, load, join, create, linkQ, del, save>>
  /\ UNCHANGED <<dbEdited, addOpen, editing, savingPlace, delPlace, removed>>
  /\ UNCHANGED formVars
  /\ UNCHANGED viewVars

\* updateMembers after update({ members }).eq("id", ...): the update writes the
\* members column only, so owner and code of the row stay; then onUpdate with
\* the mapList of the render the call was made from.
MembersReply(u, ok) ==
  /\ memb[u].pc = "update"
  /\ updateMapLocally(u, memb[u].mapList)
  /\ memb' = [memb EXCEPT ![u] = MembIdle]
  /\ UNCHANGED <<dbMaps, dbPlaces, dbUserMaps, clock, placeClock, deleted,
                 deletedPlaces, session, screen, joinOpen, joinCode, joinError, saving,
                 alert, load, join, create, linkQ, del, save>>
  /\ UNCHANGED <<dbEdited, addOpen, editing, savingPlace, delPlace, removed>>
  /\ UNCHANGED formVars
  /\ UNCHANGED viewVars

\* ------------------------------------------- the add/edit dialog, pin mode
\* Texts are sequences of characters.
Texts == {<<>>, <<" ">>, <<"a">>, <<"a", "b">>}

\* String.prototype.trim
RECURSIVE TrimLeft(_)
TrimLeft(t) == IF t # <<>> /\ Head(t) = " " THEN TrimLeft(Tail(t)) ELSE t
RECURSIVE TrimRight(_)
TrimRight(t) ==
  IF t # <<>> /\ t[Len(t)] = " " THEN TrimRight(SubSeq(t, 1, Len(t) - 1)) ELSE t
Trim(t) == TrimRight(TrimLeft(t))

\* encodeURIComponent, on the characters that occur
encodeURIComponent(t) == [k \in 1..Len(t) |-> IF t[k] = " " THEN "%20" ELSE t[k]]

\* The q parameter of the request: encodeURIComponent(query + " Vancouver BC")
VancouverBC == <<" ", "V", "a", "n", "c", "o", "u", "v", "e", "r", " ", "B", "C">>
RequestQ(query) == encodeURIComponent(query \o VancouverBC)

\* A decimal numeral as the endpoint sends it, and parseFloat of it in units
\* of 1e-4 degree.
Numeral(neg, int, frac) == [neg |-> neg, int |-> int, frac |-> frac]
parseFloat(n) == (IF n.neg THEN -1 ELSE 1) * (n.int * 10000 + n.frac)

\* The result the endpoint finds for a query: display_name as its parts
\* between commas, lat and lon as numerals; query is the text it answers.
GeoResultFor(query) ==
  [query |-> query, display_name |-> <<Trim(query) \o <<" ", "S", "t">>, <<"V">>>>,
   lat |-> Numeral(FALSE, 49, 2611 + Len(query)), lon |-> Numeral(TRUE, 123, 1139)]

\* The SpotMap view is rendered: {tab === "map" && <SpotMap ... />}
ViewMounted(u) == screen[u] = "map" /\ tab[u] = "map"

\* The tab bar of the map screen; the view under the map tab is mounted with
\* the pinMode of that render.
SetTab(u, t) ==
  /\ session[u] /\ screen[u] = "map" /\ ~addOpen[u] /\ t # tab[u]
  /\ tab' = [tab EXCEPT ![u] = t]
  /\ closure' = [closure EXCEPT ![u] = t = "map" /\ detailPin[u]]
  /\ UNCHANGED <<detailPin, form, captured, geoQuery, geoResults, geoStatus, geoLoading,
                 geoTimeout, geoTimers, geoFlight, timerClock, lastTyped, geoSent>>
  /\ UNCHANGED <<addOpen, alert>>
  /\ UNCHANGED <<dbMaps, dbPlaces, dbUserMaps, clock, placeClock, deleted,
                 deletedPlaces, session, maps, screen, activeMap, joinOpen, joinCode,
                 joinError, saving, load, join, create, linkQ, del, save>>
  /\ UNCHANGED <<dbEdited, editing, savingPlace, memb, delPlace, removed>>
  /\ UNCHANGED viewVars

\* A text field of the dialog: setForm(f => ({ ...f, name: t })).
TypeName(u, t) ==
  /\ session[u] /\ screen[u] = "map" /\ addOpen[u]
  /\ form' = [form EXCEPT ![u].name = t]
  /\ UNCHANGED <<tab, detailPin, closure, captured, geoQuery, geoResults, geoStatus,
                 geoLoading, geoTimeout, geoTimers, geoFlight, timerClock, lastTyped,
                 geoSent>>
  /\ UNCHANGED <<addOpen, alert>>
  /\ UNCHANGED <<dbMaps, dbPlaces, dbUserMaps, clock, placeClock, deleted,
                 deletedPlaces, session, maps, screen, activeMap, joinOpen, joinCode,
                 joinError, saving, load, join, create, linkQ, del, save>>
  /\ UNCHANGED <<dbEdited, editing, savingPlace, memb, delPlace, removed>>
  /\ UNCHANGED viewVars

\* The drop-a-pin button of the dialog.
DropPin(u) ==
  /\ session[u] /\ screen[u] = "map" /\ addOpen[u]
  /\ detailPin' = [detailPin EXCEPT ![u] = TRUE]
  /\ addOpen' = [addOpen EXCEPT ![u] = FALSE]
  /\ tab' = [tab EXCEPT ![u] = "map"]
  /\ closure' = [closure EXCEPT ![u] = IF tab[u] = "map" THEN @ ELSE TRUE]
  /\ captured' = [captured EXCEPT ![u] = 0]
  /\ alert' = [alert EXCEPT ![u] = "Drop a pin"]
  /\ UNCHANGED <<form, geoQuery, geoResults, geoStatus, geoLoading, geoTimeout,
                 geoTimers, geoFlight, timerClock, lastTyped, geoSent>>
  /\ UNCHANGED <<dbMaps, dbPlaces, dbUserMaps, clock, placeClock, deleted,
                 deletedPlaces, session, maps, screen, activeMap, joinOpen, joinCode,
                 joinError, saving, load, join, create, linkQ, del, save>>
  /\ UNCHANGED <<dbEdited, editing, savingPlace, memb, delPlace, removed>>
  /\ UNCHANGED viewVars

\* CancelPin as it would be if the banner's Cancel only reopened the dialog.
CancelPin_KeepsPinMode(u) ==
  /\ session[u] /\ screen[u] = "map" /\ detailPin[u]
  /\ addOpen' = [addOpen EXCEPT ![u] = TRUE]
  /\ UNCHANGED <<tab, detailPin, closure, form, captured, geoQuery, geoResults,
                 geoStatus, geoLoading, geoTimeout, geoTimers, geoFlight, timerClock,
                 lastTyped, geoSent>>
  /\ UNCHANGED alert
  /\ UNCHANGED <<dbMaps, dbPlaces, dbUserMaps, clock, placeClock, deleted,
                 deletedPlaces, session, maps, screen, activeMap, joinOpen, joinCode,
                 joinError, saving, load, join, create, linkQ, del, save>>
  /\ UNCHANGED <<dbEdited, editing, savingPlace, memb, delPlace, removed>>
  /\ UNCHANGED viewVars

\* Cancel of the pin banner: setPinMode(false); setAddOpen(true).
CancelPin(u) ==
  /\ session[u] /\ screen[u] = "map" /\ detailPin[u]
  /\ detailPin' = [detailPin EXCEPT ![u] = FALSE]
  /\ addOpen' = [addOpen EXCEPT ![u] = TRUE]
  /\ UNCHANGED <<tab, closure, form, captured, geoQuery, geoResults, geoStatus,
                 geoLoading, geoTimeout, geoTimers, geoFlight, timerClock, lastTyped,
                 geoSent>>
  /\ UNCHANGED alert
  /\ UNCHANGED <<dbMaps, dbPlaces, dbUserMaps, clock, placeClock, deleted,
                 deletedPlaces, session, maps, screen, activeMap, joinOpen, joinCode,
                 joinError, saving, load, join, create, linkQ, del, save>>
  /\ UNCHANGED <<dbEdited, editing, savingPlace, memb, delPlace, removed>>
  /\ UNCHANGED viewVars

\* handleMapLongPress with the coordinate c of the event.
handleMapLongPress(u, c) ==
  /\ form' = [form EXCEPT ![u].lat = <<c[1]>>, ![u].lng = <<c[2]>>]
  /\ geoStatus' = [geoStatus EXCEPT ![u] = "success"]
  /\ geoQuery' = [geoQuery EXCEPT ![u] = <<>>]
  /\ geoResults' = [geoResults EXCEPT ![u] = <<>>]
  /\ detailPin' = [detailPin EXCEPT ![u] = FALSE]
  /\ addOpen' = [addOpen EXCEPT ![u] = TRUE]
  /\ captured' = [captured EXCEPT ![u] = @ + 1]
  /\ UNCHANGED <<tab, closure, geoLoading, geoTimeout, geoTimers, geoFlight, timerClock,
                 lastTyped, geoSent>>
  /\ UNCHANGED alert
  /\ UNCHANGED <<dbMaps, dbPlaces, dbUserMaps, clock, placeClock, deleted,
                 deletedPlaces, session, maps, screen, activeMap, joinOpen, joinCode,
                 joinError, saving, load, join, create, linkQ, del, save>>
  /\ UNCHANGED <<dbEdited, editing, savingPlace, memb, delPlace, removed>>
  /\ UNCHANGED viewVars

\* A long-press on the native map: MapView gets
\* onLongPress={props.pinMode ? props.onLongPress : undefined}.
LongPressNative(u, c) ==
  /\ session[u] /\ ViewMounted(u) /\ ~addOpen[u]
  /\ detailPin[u]
  /\ handleMapLongPress(u, c)

\* A long-press / right-click on the built browser map of SpotMap.web.tsx:
\* the contextmenu handler tests the pinMode of the render the view was
\* mounted in.
LongPressWeb(u, c) ==
  /\ session[u] /\ ViewMounted(u) /\ ~addOpen[u]
  /\ closure[u]
  /\ handleMapLongPress(u, c)

\* searchLocation as it would be without the clearTimeout.
searchLocation_NoClear(u, query) ==
  /\ session[u] /\ screen[u] = "map" /\ addOpen[u]
  /\ query # geoQuery[u]
  /\ geoQuery' = [geoQuery EXCEPT ![u] = query]
  /\ geoResults' = [geoResults EXCEPT ![u] = <<>>]
  /\ geoStatus' = [geoStatus EXCEPT ![u] = "idle"]
  /\ lastTyped' = [lastTyped EXCEPT ![u] = query]
  /\ IF Trim(query) = <<>>
       THEN UNCHANGED <<geoTimeout, geoTimers, timerClock>>
       ELSE /\ timerClock' = timerClock + 1
            /\ geoTimeout' = [geoTimeout EXCEPT ![u] = timerClock + 1]
            /\ geoTimers' = geoTimers \cup
                 {[id |-> timerClock + 1, u |-> u, query |-> query, own |-> TRUE]}
  /\ UNCHANGED <<tab, detailPin, closure, form, captured, geoLoading, geoFlight, geoSent>>
  /\ UNCHANGED <<addOpen, alert>>
  /\ UNCHANGED <<dbMaps, dbPlaces, dbUserMaps, clock, placeClock, deleted,
                 deletedPlaces, session, maps, screen, activeMap, joinOpen, joinCode,
                 joinError, saving, load, join, create, linkQ, del, save>>
  /\ UNCHANGED <<dbEdited, editing, savingPlace, memb, delPlace, removed>>
  /\ UNCHANGED viewVars

\* searchLocation, the onChangeText of the location field (called when the
\* text changes): the states are reset, the pending timer is cleared, and a
\* text that is not blank starts a timer of 600 ms.
searchLocation(u, query) ==
  /\ session[u] /\ screen[u] = "map" /\ addOpen[u]
  /\ query # geoQuery[u]
  /\ geoQuery' = [geoQuery EXCEPT ![u] = query]
  /\ geoResults' = [geoResults EXCEPT ![u] = <<>>]
  /\ geoStatus' = [geoStatus EXCEPT ![u] = "idle"]
  /\ lastTyped' = [lastTyped EXCEPT ![u] = query]
  /\ LET cleared == {t \in geoTimers : t.id # geoTimeout[u]} IN
     IF Trim(query) = <<>>
       THEN /\ geoTimers' = cleared
            /\ UNCHANGED <<geoTimeout, timerClock>>
       ELSE /\ timerClock' = timerClock + 1
            /\ geoTimeout' = [geoTimeout EXCEPT ![u] = timerClock + 1]
            /\ geoTimers' = cleared \cup
                 {[id |-> timerClock + 1, u |-> u, query |-> query, own |-> TRUE]}
  /\ UNCHANGED <<tab, detailPin, closure, form, captured, geoLoading, geoFlight, geoSent>>
  /\ UNCHANGED <<addOpen, alert>>
  /\ UNCHANGED <<dbMaps, dbPlaces, dbUserMaps, clock, placeClock, deleted,
                 deletedPlaces, session, maps, screen, activeMap, joinOpen, joinCode,
                 joinError, saving, load, join, create, linkQ, del, save>>
  /\ UNCHANGED <<dbEdited, editing, savingPlace, memb, delPlace, removed>>
  /\ UNCHANGED viewVars

\* The timer of searchLocation fires: setGeoLoading(true) and the fetch.
GeoTimer(t) ==
  /\ t \in geoTimers
  /\ geoTimers' = geoTimers \ {t}
  /\ geoLoading' = [geoLoading EXCEPT ![t.u] = IF t.own THEN TRUE ELSE @]
  /\ geoFlight' = geoFlight \cup
       {[id |-> t.id, u |-> t.u, query |-> t.query, q |-> RequestQ(t.query), own |-> t.own]}
  /\ geoSent' = geoSent \cup
       {[u |-> t.u, q |-> RequestQ(t.query), last |-> lastTyped[t.u], own |-> t.own]}
  /\ UNCHANGED <<tab, detailPin, closure, form, captured, geoQuery, geoResults,
                 geoStatus, geoTimeout, timerClock, lastTyped>>
  /\ UNCHANGED <<addOpen, alert>>
  /\ UNCHANGED <<dbMaps, dbPlaces, dbUserMaps, clock, placeClock, deleted,
                 deletedPlaces, session, maps, screen, activeMap, joinOpen, joinCode,
                 joinError, saving, load, join, create, linkQ, del, save>>
  /\ UNCHANGED <<dbEdited, editing, savingPlace, memb, delPlace, removed>>
  /\ UNCHANGED viewVars

\* The fetch of a lookup ends: with results ("hit"), with an empty list
\* ("empty"), or by throwing ("fail").
GeoFetchReply(r, ans) ==
  /\ r \in geoFlight
  /\ geoFlight' = geoFlight \ {r}
  /\ geoResults' = [geoResults EXCEPT ![r.u] =
       IF ~r.own \/ ans = "fail" THEN @
       ELSE IF ans = "hit" THEN <<GeoResultFor(r.query)>> ELSE <<>>]
  /\ geoStatus' = [geoStatus EXCEPT ![r.u] =
       IF ~r.own THEN @ ELSE IF ans = "hit" THEN "idle" ELSE "noresults"]
  /\ geoLoading' = [geoLoading EXCEPT ![r.u] = IF r.own THEN FALSE ELSE @]
  /\ UNCHANGED <<tab, detailPin, closure, form, captured, geoQuery, geoTimeout,
                 geoTimers, timerClock, lastTyped, geoSent>>
  /\ UNCHANGED <<addOpen, alert>>
  /\ UNCHANGED <<dbMaps, dbPlaces, dbUserMaps, clock, placeClock, deleted,
                 deletedPlaces, session, maps, screen, activeMap, joinOpen, joinCode,
                 joinError, saving, load, join, create, linkQ, del, save>>
  /\ UNCHANGED <<dbEdited, editing, savingPlace, memb, delPlace, removed>>
  /\ UNCHANGED viewVars

\* pickGeoResult on the k-th row of the result list.
pickGeoResult(u, k) ==
  /\ session[u] /\ screen[u] = "map" /\ addOpen[u]
  /\ k \in 1..Len(geoResults[u])
  /\ LET r == geoResults[u][k] IN
     /\ form' = [form EXCEPT ![u].lat = <<parseFloat(r.lat)>>,
                             ![u].lng = <<parseFloat(r.lon)>>]
     /\ geoQuery' = [geoQuery EXCEPT ![u] = r.display_name[1]]
  /\ geoResults' = [geoResults EXCEPT ![u] = <<>>]
  /\ geoStatus' = [geoStatus EXCEPT ![u] = "success"]
  /\ UNCHANGED <<tab, detailPin, closure, captured, geoLoading, geoTimeout, geoTimers,
                 geoFlight, timerClock, lastTyped, geoSent>>
  /\ UNCHANGED <<addOpen, alert>>
  /\ UNCHANGED <<dbMaps, dbPlaces, dbUserMaps, clock, placeClock, deleted,
                 deletedPlaces, session, maps, screen, activeMap, joinOpen, joinCode,
                 joinError, saving, load, join, create, linkQ, del, save>>
  /\ UNCHANGED <<dbEdited, editing, savingPlace, memb, delPlace, removed>>
  /\ UNCHANGED viewVars

\* handleSignOut, from the account alert of the home screen: the session ends,
\* then setMaps([]), setScreen("home"), setActiveMap(null).
SignOut(u) ==
  /\ session[u] /\ screen[u] = "home" /\ ~joinOpen[u]
  /\ session' = [session EXCEPT ![u] = FALSE]
  /\ maps' = [maps EXCEPT ![u] = {}]
  /\ activeMap' = [activeMap EXCEPT ![u] = NoEntry]
  /\ LeaveHome(u, join[u])
  /\ UNCHANGED <<dbMaps, dbPlaces, dbUserMaps, clock, placeClock, deleted,
                 deletedPlaces, screen, alert, load, linkQ, del, save>>
  /\ UNCHANGED detailVars
  /\ UNCHANGED formVars
  /\ UNCHANGED viewVars

\* ----------------------------------------------------------- specifications
Centers == DevicePositions \cup {DEFAULT_LOCATION}

Init == InitView /\ InitApp

\* The browser view of SpotMap.web.tsx under changing place lists.
NextMarkers ==
  \/ \E i \in Inst, ps \in PlaceLists : MountWeb(i, ps, FALSE)
  \/ \E i \in Inst : ScriptLoadWeb(i)
  \/ \E i \in Inst : ScriptError(i)
  \/ \E i \in Inst, ans \in {"ok", "denied"}, pos \in DevicePositions : GeoReplyWeb(i, ans, pos)
  \/ \E i \in Inst, c \in Centers : TimerWeb(i, c)
  \/ \E i \in Inst : UnmountWeb(i)
  \/ \E i \in Inst, ps \in PlaceLists : SetPlaces(i, ps)

SpecMarkers == Init /\ [][NextMarkers]_vars

\* Views of SpotMap.web.tsx and of part_003 on one page, under a changing
\* pinMode and gestures; the place list is the full catalogue throughout.
NextView ==
  \/ \E i \in Inst, pm \in BOOLEAN : MountWeb(i, PlaceIds, pm)
  \/ \E i \in Inst, pm \in BOOLEAN : MountP003(i, PlaceIds, pm)
  \/ \E i \in Inst : ScriptLoadWeb(i)
  \/ \E i \in Inst : ScriptLoadPoll(i)
  \/ \E i \in Inst : ScriptError(i)
  \/ \E i \in Inst, ans \in {"ok", "denied"}, pos \in DevicePositions : GeoReplyWeb(i, ans, pos)
  \/ \E i \in Inst, ans \in {"ok", "denied"}, pos \in DevicePositions : GeoReplyP003(i, ans, pos)
  \/ \E i \in Inst, c \in Centers : TimerWeb(i, c)
  \/ \E i \in Inst : TickP003(i)
  \/ \E i \in Inst : UnmountWeb(i)
  \/ \E i \in Inst : UnmountP003(i)
  \/ \E i \in Inst, b \in BOOLEAN : SetPinMode(i, b)
  \/ \E m \in MapIds : ContextMenu(m)

Spec == Init /\ [][NextView]_vars

\* Views of SpotMap.web.tsx, of part_000 and NativeMap side by side, props fixed.
NextConstruct ==
  \/ \E i \in Inst : MountWeb(i, PlaceIds, FALSE)
  \/ \E i \in Inst : MountP000(i, PlaceIds, FALSE)
  \/ \E i \in Inst : ScriptLoadWeb(i)
  \/ \E i \in Inst : ScriptLoadPoll(i)
  \/ \E i \in Inst : ScriptError(i)
  \/ \E i \in Inst, ans \in {"ok", "denied"}, pos \in DevicePositions : GeoReplyWeb(i, ans, pos)
  \/ \E i \in Inst, ans \in {"ok", "denied", "timeout"}, pos \in DevicePositions :
       GeoReplyP000(i, ans, pos)
  \/ \E i \in Inst, c \in Centers : TimerWeb(i, c)
  \/ \E i \in Inst : TickP000(i)
  \/ \E i \in Inst, c \in Centers : RafP000(i, c)
  \/ \E i \in Inst : UnmountWeb(i)
  \/ \E i \in Inst : UnmountP000(i)
  \/ \E i \in Inst : MountNative(i, PlaceIds, FALSE)
  \/ \E i \in Inst, ans \in {"ok", "denied"}, pos \in DevicePositions, moves \in BOOLEAN :
       GeoReplyNative(i, ans, pos, moves)
  \/ \E i \in Inst : UnmountNative(i)

SpecConstruct == Init /\ [][NextConstruct]_vars

\* What the event loop and the browser guarantee: a started script load ends
\* (load or error), a due timer, interval tick or animation frame runs, and a
\* location request made with { timeout: 5000 } is answered.  A request made
\* without a timeout is answered only if the user answers the permission
\* prompt, so GeoReplyWeb carries no fairness.
SpecFair ==
  /\ Init /\ [][NextConstruct]_vars
  /\ WF_vars(\E i \in Inst : ScriptLoadWeb(i) \/ ScriptLoadPoll(i) \/ ScriptError(i))
  /\ WF_vars(\E i \in Inst, c \in Centers : TimerWeb(i, c))
  /\ WF_vars(\E i \in Inst : TickP000(i))
  /\ WF_vars(\E i \in Inst, c \in Centers : RafP000(i, c))
  /\ WF_vars(\E i \in Inst, ans \in {"ok", "denied", "timeout"}, pos \in DevicePositions :
               GeoReplyP000(i, ans, pos))

\* Joining by code: the first user creates maps, the others use the join
\* dialog; everybody reloads, opens and leaves maps and removes them from the
\* list.  A lookup can fail.
NextJoin ==
  \/ \E u \in Users : SignIn(u)
  \/ \E u \in Users : LoadUserMaps(u, TRUE)
  \/ \E u \in Users : LoadMapsData(u, TRUE)
  \/ \E u \in Users : LoadPlaces(u, TRUE)
  \/ \E u \in {1}, code \in Codes : clock < AppMaps /\ CreatePress(u, code)
  \/ \E u \in {1} : CreateReply(u, TRUE)
  \/ \E u \in {1}, m \in MapId : LinkReply(u, m, TRUE)
  \/ \E u \in Users : \E e \in maps[u] : Remove(u, e)
  \/ \E u \in Users : \E e \in maps[u] : OpenMap(u, e)
  \/ \E u \in Users : Back(u)
  \/ \E u \in Users \ {1} : OpenJoin(u)
  \/ \E u \in Users \ {1} : CloseJoin(u)
  \/ \E u \in Users \ {1}, t \in TypedCodes : TypeCode(u, t)
  \/ \E u \in Users \ {1} : JoinPress(u)
  \/ \E u \in Users \ {1}, ok \in BOOLEAN : JoinLookup(u, ok)
  \/ \E u \in Users \ {1} : JoinPlaces(u, TRUE)
  \/ \E u \in Users \ {1} : JoinUpsert(u, TRUE)

SpecJoin == Init /\ [][NextJoin]_vars

\* Deleting a map: the first user creates maps, adds places and deletes, the
\* others join with the code; everybody reloads.  A delete can fail.
NextDelete ==
  \/ \E u \in Users : SignIn(u)
  \/ \E u \in Users : LoadUserMaps(u, TRUE)
  \/ \E u \in Users : LoadMapsData(u, TRUE)
  \/ \E u \in Users : LoadPlaces(u, TRUE)
  \/ \E u \in {1} : clock < AppMaps /\ CreatePress(u, "ABC123")
  \/ \E u \in {1} : CreateReply(u, TRUE)
  \/ \E u \in {1}, m \in MapId : LinkReply(u, m, TRUE)
  \/ \E u \in Users : \E e \in maps[u] : OpenMap(u, e)
  \/ \E u \in Users : Back(u)
  \/ \E u \in Users \ {1} : OpenJoin(u)
  \/ \E u \in Users \ {1} : TypeCode(u, "ABC123")
  \/ \E u \in Users \ {1} : JoinPress(u)
  \/ \E u \in Users \ {1} : JoinLookup(u, TRUE)
  \/ \E u \in Users \ {1} : JoinPlaces(u, TRUE)
  \/ \E u \in Users \ {1} : JoinUpsert(u, TRUE)
  \/ \E u \in {1} : placeClock < FewPlaces /\ OpenAdd(u, 0)
  \/ \E u \in {1} : placeClock < FewPlaces /\ SavePress(u)
  \/ \E u \in {1} : SaveReply(u, TRUE)
  \/ \E u \in {1} : DeletePress(u)
  \/ \E u \in {1}, ok \in BOOLEAN, casc \in BOOLEAN : DeleteReply(u, ok, casc)

SpecDelete == Init /\ [][NextDelete]_vars

\* One user creating maps up to the limit, the backend answering every
\* request: sign-in and reload, create, remove from the list.  Every new map
\* gets a code of its own, and a create waits for the onMapCreated calls
\* before it when MaxPending of them are in flight.
Unlisted(u) == {m \in MapId : dbMaps[m].owner = u} \ ListIds(maps[u])

NextLimit ==
  \E u \in {1} :
    \/ SignIn(u)
    \/ LoadUserMaps(u, TRUE)
    \/ LoadMapsData(u, TRUE)
    \/ LoadPlaces(u, TRUE)
    \/ Cardinality(linkQ) < MaxPending /\ CreatePress(u, FreshCode(clock + 1))
    \/ CreateReply(u, TRUE)
    \/ \E m \in MapId : LinkReply(u, m, TRUE)
    \/ \E e \in maps[u] : Cardinality(Unlisted(u)) < MaxUnlisted /\ Remove(u, e)

SpecLimit == Init /\ [][NextLimit]_vars

\* Members adding places to one map: the first user creates it, the others
\* join with its code, and once everybody has it open they add places, each
\* from its own copy of the list; nobody reloads.  A joiner adds at most
\* MaxJoinerPlaces places, and adds them when the map is that close to full;
\* with the list full the owner edits its first place.
AllOnMap == \A u \in Users : screen[u] = "map"
NearlyFull == Cardinality(dbPlaces) >= MAX_PLACES - MaxJoinerPlaces

NextPlaces ==
  \/ \E u \in Users : SignIn(u)
  \/ \E u \in Users : LoadUserMaps(u, TRUE)
  \/ \E u \in {1} : clock < AppMaps /\ CreatePress(u, "ABC123")
  \/ \E u \in {1} : CreateReply(u, TRUE)
  \/ \E u \in {1}, m \in MapId : LinkReply(u, m, TRUE)
  \/ \E u \in {1} : \E e \in maps[u] : OpenMap(u, e)
  \/ \E u \in Users \ {1} : OpenJoin(u)
  \/ \E u \in Users \ {1} : TypeCode(u, "ABC123")
  \/ \E u \in Users \ {1} : JoinPress(u)
  \/ \E u \in Users \ {1} : JoinLookup(u, TRUE)
  \/ \E u \in Users \ {1} : JoinPlaces(u, TRUE)
  \/ \E u \in Users \ {1} : JoinUpsert(u, TRUE)
  \/ \E u \in {1} : AllOnMap /\ OpenAdd(u, 0)
  \/ \E u \in Users \ {1} : AllOnMap /\ NearlyFull /\ placesCount(u) < MaxJoinerPlaces /\ OpenAdd(u, 0)
  \/ \E u \in {1} : placesCount(u) >= MAX_PLACES /\ 1 \notin activeMap[u].edited /\ OpenAdd(u, 1)
  \/ \E u \in Users : SavePress(u)
  \/ \E u \in Users : SaveReply(u, TRUE)

SpecPlaces == Init /\ [][NextPlaces]_vars

\* Codes: the first user creates maps, each with a code generateCode may
\* draw, removes them from the list, opens one, edits its members and adds,
\* edits and deletes a place; the others join by code.
NextCodes ==
  \/ \E u \in Users : SignIn(u)
  \/ \E u \in {1}, code \in Codes : clock < CodeMaps /\ CreatePress(u, code)
  \/ \E u \in {1} : CreateReply(u, TRUE)
  \/ \E u \in {1}, m \in MapId : LinkReply(u, m, TRUE)
  \/ \E u \in {1} : \E e \in maps[u] : Remove(u, e)
  \/ \E u \in {1} : \E e \in maps[u] : OpenMap(u, e)
  \/ \E u \in Users \ {1} : OpenJoin(u)
  \/ \E u \in Users \ {1}, t \in Codes : TypeCode(u, t)
  \/ \E u \in Users \ {1} : JoinPress(u)
  \/ \E u \in Users \ {1} : JoinLookup(u, TRUE)
  \/ \E u \in Users \ {1} : JoinPlaces(u, TRUE)
  \/ \E u \in Users \ {1} : JoinUpsert(u, TRUE)
  \/ \E u \in {1} : MembersPress(u)
  \/ \E u \in {1} : MembersReply(u, TRUE)
  \/ \E u \in {1} : placeClock < OnePlace /\ OpenAdd(u, 0)
  \/ \E u \in {1} : \E p \in activeMap[u].places \ activeMap[u].edited : OpenAdd(u, p)
  \/ \E u \in {1} : SavePress(u)
  \/ \E u \in {1} : SaveReply(u, TRUE)
  \/ \E u \in {1} : \E p \in activeMap[u].places : DeletePlacePress(u, p)
  \/ \E u \in {1} : DeletePlaceReply(u, TRUE)

SpecCodes == Init /\ [][NextCodes]_vars

\* Writes that the backend can reject: one user creates a map, opens it,
\* adds, edits and deletes places and deletes the map; every write of a
\* place, and the delete of the map, can fail.
NextWrites ==
  \E u \in {1} :
    \/ SignIn(u)
    \/ LoadUserMaps(u, TRUE)
    \/ LoadMapsData(u, TRUE)
    \/ LoadPlaces(u, TRUE)
    \/ clock < AppMaps /\ CreatePress(u, "ABC123")
    \/ CreateReply(u, TRUE)
    \/ \E m \in MapId : LinkReply(u, m, TRUE)
    \/ \E e \in maps[u] : OpenMap(u, e)
    \/ Back(u)
    \/ placeClock < OnePlace /\ OpenAdd(u, 0)
    \/ \E p \in activeMap[u].places : OpenAdd(u, p)
    \/ CloseAdd(u)
    \/ (editing[u] # 0 \/ placeClock < OnePlace) /\ SavePress(u)
    \/ \E ok \in BOOLEAN : SaveReply(u, ok)
    \/ \E p \in activeMap[u].places : DeletePlacePress(u, p)
    \/ \E ok \in BOOLEAN : DeletePlaceReply(u, ok)
    \/ DeletePress(u)
    \/ \E ok \in BOOLEAN : DeleteReply(u, ok, TRUE)

SpecWrites == Init /\ [][NextWrites]_vars

\* Owner and member: the first user creates a map, the others join it with
\* the code; a member removes it from the list, edits members, adds, edits and
\* deletes a place and signs out; whoever is offered the delete control can
\* press it.  A member waits for the answer to one call on the map screen
\* before making the next.
Busy(u) == save[u].pc # "idle" \/ memb[u].pc # "idle" \/ delPlace[u].pc # "idle"

NextOwner ==
  \/ \E u \in Users : SignIn(u)
  \/ \E u \in Users \ {1} : LoadUserMaps(u, TRUE)
  \/ \E u \in Users \ {1} : LoadMapsData(u, TRUE)
  \/ \E u \in Users \ {1} : LoadPlaces(u, TRUE)
  \/ \E u \in {1} : clock < AppMaps /\ CreatePress(u, "ABC123")
  \/ \E u \in {1} : CreateReply(u, TRUE)
  \/ \E u \in {1}, m \in MapId : LinkReply(u, m, TRUE)
  \/ \E u \in Users : \E e \in maps[u] : OpenMap(u, e)
  \/ \E u \in Users \ {1} : Back(u)
  \/ \E u \in Users \ {1} : OpenJoin(u)
  \/ \E u \in Users \ {1} : TypeCode(u, "ABC123")
  \/ \E u \in Users \ {1} : JoinPress(u)
  \/ \E u \in Users \ {1} : JoinLookup(u, TRUE)
  \/ \E u \in Users \ {1} : JoinPlaces(u, TRUE)
  \/ \E u \in Users \ {1} : JoinUpsert(u, TRUE)
  \/ \E u \in Users \ {1} : \E e \in maps[u] : Remove(u, e)
  \/ \E u \in Users \ {1} : SignOut(u)
  \/ \E u \in Users \ {1} : ~Busy(u) /\ MembersPress(u)
  \/ \E u \in Users \ {1} : MembersReply(u, TRUE)
  \/ \E u \in Users \ {1} : ~Busy(u) /\ placeClock < OnePlace /\ OpenAdd(u, 0)
  \/ \E u \in Users \ {1} : \E p \in activeMap[u].places \ activeMap[u].edited :
       ~Busy(u) /\ OpenAdd(u, p)
  \/ \E u \in Users \ {1} : (editing[u] # 0 \/ placeClock < OnePlace) /\ SavePress(u)
  \/ \E u \in Users \ {1} : SaveReply(u, TRUE)
  \/ \E u \in Users \ {1} : \E p \in activeMap[u].places : ~Busy(u) /\ DeletePlacePress(u, p)
  \/ \E u \in Users \ {1} : DeletePlaceReply(u, TRUE)
  \/ \E u \in Users : DeletePress(u)
  \/ \E u \in Users : DeleteReply(u, TRUE, TRUE)

SpecOwner == Init /\ [][NextOwner]_vars

\* Views of SpotMap.web.tsx and of part_001 mounted and unmounted while their
\* script loads, location requests and timers are under way; props fixed.
NextPoll ==
  \/ \E i \in Inst : MountWeb(i, PlaceIds, FALSE)
  \/ \E i \in Inst, h \in BOOLEAN : MountP001(i, PlaceIds, FALSE, h)
  \/ \E i \in Inst : ScriptLoadWeb(i)
  \/ \E i \in Inst : ScriptLoadP001(i)
  \/ \E i \in Inst : ScriptError(i)
  \/ \E i \in Inst, ans \in {"ok", "denied"}, pos \in DevicePositions : GeoReplyWeb(i, ans, pos)
  \/ \E i \in Inst, c \in Centers : TimerWeb(i, c)
  \/ \E i \in Inst : TickP001(i)
  \/ \E i \in Inst : Layout(i)
  \/ \E i \in Inst, m \in MapIds : InvalTimer(i, m)
  \/ \E i \in Inst, m \in MapIds, ans \in {"ok", "denied"}, pos \in DevicePositions :
       FlyReply(i, m, ans, pos)
  \/ \E i \in Inst : UnmountWeb(i)
  \/ \E i \in Inst : UnmountP001(i)

SpecPoll == Init /\ [][NextPoll]_vars

\* An element poll of initSequence is between two of its attempts.
SmPolling == \E t \in BagToSet(tasks) : t.k = "sm"

\* The two polling WebMaps of _SpotMap.tsx, with elements that get their
\* height at the mount, later, or never; a poll starts when no other is
\* under way.
NextSize ==
  \/ \E i \in Inst, v \in {"sm30", "sm40"}, h \in BOOLEAN :
       ~SmPolling /\ MountSm(i, v, PlaceIds, FALSE, h)
  \/ \E i \in Inst : ~SmPolling /\ ScriptLoadSm(i, 0)
  \/ \E i \in Inst : ScriptError(i)
  \/ \E i \in Inst, n \in 1..PollSm40, el \in 0..MaxInst : SmTimer(i, n, el, 0)
  \/ \E i \in Inst : Layout(i)
  \/ \E i \in Inst, m \in MapIds : InvalTimer(i, m)
  \/ \E i \in Inst, m \in MapIds, ans \in {"ok", "denied"}, pos \in DevicePositions :
       FlyReply(i, m, ans, pos)
  \/ \E i \in Inst : UnmountSm(i)

SpecSize == Init /\ [][NextSize]_vars

FramePlaceLists == {PlaceIds, {1}}

\* The browser view of SpotMap.web.tsx and NativeMap, mounted with any list
\* of places of the catalogue: with both coordinates, without, and with a
\* coordinate that is 0.
NextCoords ==
  \/ \E i \in Inst, ps \in PlaceLists : MountWeb(i, ps, FALSE)
  \/ \E i \in Inst, ps \in PlaceLists : MountNative(i, ps, FALSE)
  \/ \E i \in Inst : ScriptLoadWeb(i)
  \/ \E i \in Inst, ans \in {"ok", "denied"}, pos \in DevicePositions : GeoReplyWeb(i, ans, pos)
  \/ \E i \in Inst, ans \in {"ok", "denied"}, pos \in DevicePositions, moves \in BOOLEAN :
       GeoReplyNative(i, ans, pos, moves)
  \/ \E i \in Inst, c \in Centers : TimerWeb(i, c)
  \/ \E i \in Inst, ps \in PlaceLists : variant[i] = "web" /\ SetPlaces(i, ps)
  \/ \E i \in Inst : UnmountWeb(i)
  \/ \E i \in Inst : UnmountNative(i)

SpecCoords == Init /\ [][NextCoords]_vars

\* A map is created and gets a place while its owner and another user join
\* it by code, go back, and join again.
NextRejoin ==
  \/ \E u \in Users : SignIn(u)
  \/ \E u \in Users : LoadUserMaps(u, TRUE)
  \/ \E u \in Users : LoadMapsData(u, TRUE)
  \/ \E u \in Users : LoadPlaces(u, TRUE)
  \/ \E u \in {1}, code \in {"ABC123"} : clock < OnePlace /\ CreatePress(u, code)
  \/ \E u \in {1} : CreateReply(u, TRUE)
  \/ \E u \in {1}, m \in MapId : LinkReply(u, m, TRUE)
  \/ \E u \in {1} : \E e \in maps[u] : OpenMap(u, e)
  \/ \E u \in Users : Back(u)
  \/ \E u \in {1} : placeClock < OnePlace /\ OpenAdd(u, 0)
  \/ \E u \in {1} : placeClock < OnePlace /\ SavePress(u)
  \/ \E u \in {1} : SaveReply(u, TRUE)
  \/ \E u \in Users : OpenJoin(u)
  \/ \E u \in Users : TypeCode(u, "abc123")
  \/ \E u \in Users : JoinPress(u)
  \/ \E u \in Users : JoinLookup(u, TRUE)
  \/ \E u \in Users : JoinPlaces(u, TRUE)
  \/ \E u \in Users : JoinUpsert(u, TRUE)

SpecRejoin == Init /\ [][NextRejoin]_vars

\* Signing in and out while loads run: users create maps, open and leave
\* them, and sign out with no create in flight.
NextSession ==
  \/ \E u \in Users : SignIn(u)
  \/ \E u \in Users, ok \in BOOLEAN : LoadUserMaps(u, ok)
  \/ \E u \in Users, ok \in BOOLEAN : LoadMapsData(u, ok)
  \/ \E u \in Users, ok \in BOOLEAN : LoadPlaces(u, ok)
  \/ \E u \in Users, code \in {"ABC123"} : clock < AppMaps /\ CreatePress(u, code)
  \/ \E u \in Users : CreateReply(u, TRUE)
  \/ \E u \in Users, m \in MapId : LinkReply(u, m, TRUE)
  \/ \E u \in Users : \E e \in maps[u] : OpenMap(u, e)
  \/ \E u \in Users : Back(u)
  \/ \E u \in Users :
       /\ create[u].pc = "idle" /\ \A m \in MapId : <<u, m>> \notin linkQ
       /\ SignOut(u)

SpecSession == Init /\ [][NextSession]_vars

\* The location search of the add/edit dialog: a user creates a map, opens
\* it, opens and closes the dialog, types into the location field and picks
\* results, while timers fire and lookups are answered.
NextSearch ==
  \/ \E u \in {1} : SignIn(u)
  \/ \E u \in {1} : LoadUserMaps(u, TRUE)
  \/ \E u \in {1} : LoadMapsData(u, TRUE)
  \/ \E u \in {1} : LoadPlaces(u, TRUE)
  \/ \E u \in {1}, code \in {"ABC123"} : clock < AppMaps /\ CreatePress(u, code)
  \/ \E u \in {1} : CreateReply(u, TRUE)
  \/ \E u \in {1}, m \in MapId : LinkReply(u, m, TRUE)
  \/ \E u \in {1} : \E e \in maps[u] : OpenMap(u, e)
  \/ \E u \in {1} : Back(u)
  \/ \E u \in {1} : OpenAdd(u, 0)
  \/ \E u \in {1} : CloseAdd(u)
  \/ \E u \in {1}, query \in Texts : timerClock < MaxTimers /\ searchLocation(u, query)
  \/ \E t \in geoTimers : GeoTimer(t)
  \/ \E r \in geoFlight, ans \in {"hit", "empty", "fail"} : GeoFetchReply(r, ans)
  \/ \E u \in {1} : pickGeoResult(u, 1)

SpecSearch == Init /\ [][NextSearch]_vars

\* Pin mode and the add/edit dialog of the map screen, with the long-press
\* of the native build and of the browser build.
NextPin ==
  \/ \E u \in {1} : SignIn(u)
  \/ \E u \in {1} : LoadUserMaps(u, TRUE)
  \/ \E u \in {1} : LoadMapsData(u, TRUE)
  \/ \E u \in {1} : LoadPlaces(u, TRUE)
  \/ \E u \in {1}, code \in {"ABC123"} : clock < AppMaps /\ CreatePress(u, code)
  \/ \E u \in {1} : CreateReply(u, TRUE)
  \/ \E u \in {1}, m \in MapId : LinkReply(u, m, TRUE)
  \/ \E u \in {1} : \E e \in maps[u] : OpenMap(u, e)
  \/ \E u \in {1} : Back(u)
  \/ \E u \in {1}, t \in {"map", "list"} : SetTab(u, t)
  \/ \E u \in {1} : OpenAdd(u, 0)
  \/ \E u \in {1} : \E p \in activeMap[u].places : OpenAdd(u, p)
  \/ \E u \in {1} : CloseAdd(u)
  \/ \E u \in {1} : TypeName(u, <<"a">>)
  \/ \E u \in {1} : DropPin(u)
  \/ \E u \in {1} : CancelPin(u)
  \/ \E u \in {1} : (editing[u] # 0 \/ placeClock < OnePlace) /\ SavePress(u)
  \/ \E u \in {1}, ok \in BOOLEAN : SaveReply(u, ok)
  \/ \E u \in {1}, c \in Centers : LongPressNative(u, c)
  \/ \E u \in {1}, c \in Centers : captured[u] < MaxCaptures /\ LongPressWeb(u, c)

SpecPin == Init /\ [][NextPin]_vars

\* The same screen in the browser build, whose view is SpotMap.web.tsx.
NextPinWeb ==
  \/ \E u \in {1} : SignIn(u)
  \/ \E u \in {1} : LoadUserMaps(u, TRUE)
  \/ \E u \in {1} : LoadMapsData(u, TRUE)
  \/ \E u \in {1} : LoadPlaces(u, TRUE)
  \/ \E u \in {1}, code \in {"ABC123"} : clock < AppMaps /\ CreatePress(u, code)
  \/ \E u \in {1} : CreateReply(u, TRUE)
  \/ \E u \in {1}, m \in MapId : LinkReply(u, m, TRUE)
  \/ \E u \in {1} : \E e \in maps[u] : OpenMap(u, e)
  \/ \E u \in {1} : Back(u)
  \/ \E u \in {1}, t \in {"map", "list"} : SetTab(u, t)
  \/ \E u \in {1} : OpenAdd(u, 0)
  \/ \E u \in {1} : \E p \in activeMap[u].places : OpenAdd(u, p)
  \/ \E u \in {1} : CloseAdd(u)
  \/ \E u \in {1} : TypeName(u, <<"a">>)
  \/ \E u \in {1} : DropPin(u)
  \/ \E u \in {1} : CancelPin(u)
  \/ \E u \in {1} : (editing[u] # 0 \/ placeClock < OnePlace) /\ SavePress(u)
  \/ \E u \in {1}, ok \in BOOLEAN : SaveReply(u, ok)
  \/ \E u \in {1}, c \in Centers : captured[u] < MaxCaptures /\ LongPressWeb(u, c)

SpecPinWeb == Init /\ [][NextPinWeb]_vars

\* The init sequences that have not ended: waiting for a script or polling.
MaxSeq == 2
MaxBuilt == 2
Sequences == {t \in BagToSet(tasks) : t.k \in {"sm", "onload"}}
SeqCount == BagCardinality([t \in Sequences |-> CopiesIn(t, tasks)])

\* The polling WebMaps of _SpotMap.tsx under renders that re-run the init
\* effect, with elements that have their height from the mount on, so that
\* an init sequence waits for its script only.  Fewer than MaxSeq sequences
\* wait at a time, and no render re-runs the effect once MaxBuilt maps were
\* built or the view has called L.map MaxBuilt times.
NextRebuild ==
  \/ \E i \in Inst, v \in {"sm30", "sm40"} :
       SeqCount < MaxSeq /\ MountSm(i, v, PlaceIds, FALSE, TRUE)
  \/ \E i \in Inst, pm \in BOOLEAN :
       /\ SeqCount < MaxSeq
       /\ Len(mapObjs) < MaxBuilt /\ lmapCalls[i] < MaxBuilt
       /\ RerunSm(i, pm)
  \/ \E i \in Inst, pin \in {0, 1} : ScriptLoadSm(i, pin)
  \/ \E i \in Inst : ScriptError(i)
  \/ \E i \in Inst, m \in MapIds : InvalTimer(i, m)
  \/ \E i \in Inst, m \in MapIds, ans \in {"ok", "denied"}, pos \in DevicePositions :
       FlyReply(i, m, ans, pos)
  \/ \E i \in Inst, ps \in FramePlaceLists : variant[i] \in {"sm30", "sm40"} /\ SetPlaces(i, ps)
  \/ \E i \in Inst : UnmountSm(i)

SpecRebuild == Init /\ [][NextRebuild]_vars

\* Views of SpotMap.web.tsx and iframe views of _SpotMap.tsx under changing
\* place lists, pinMode and gestures.
NextFrame ==
  \/ \E i \in Inst : MountFrame(i, PlaceIds, FALSE)
  \/ \E i \in Inst, ans \in {"ok", "denied"} : GeoReplyFrame(i, ans)
  \/ \E i \in Inst, ok \in BOOLEAN : FrameLoad(i, ok)
  \/ \E msg \in msgs : HandleMessage(msg)
  \/ \E i \in Inst, ps \in FramePlaceLists : SetPlacesFrame(i, ps)
  \/ \E i \in Inst : FrameEvent(i, "markerClick", 1)
  \/ \E i \in Inst : FrameEvent(i, "longpress", 0)
  \/ \E i \in Inst : UnmountFrame(i)
  \/ \E i \in Inst, b \in BOOLEAN : variant[i] = "frame" /\ SetPinMode(i, b)
  \/ \E i \in Inst : MountWeb(i, PlaceIds, FALSE)
  \/ \E i \in Inst : ScriptLoadWeb(i)
  \/ \E i \in Inst, ans \in {"ok", "denied"}, pos \in DevicePositions : GeoReplyWeb(i, ans, pos)
  \/ \E i \in Inst, c \in Centers : TimerWeb(i, c)
  \/ \E i \in Inst, ps \in FramePlaceLists : variant[i] = "web" /\ SetPlaces(i, ps)
  \/ \E i \in Inst : UnmountWeb(i)

SpecFrame == Init /\ [][NextFrame]_vars

\* Views of part_002 and of part_003, which wait for window.L by polling.
NextWait ==
  \/ \E i \in Inst, pm \in BOOLEAN : MountP002(i, PlaceIds, pm)
  \/ \E i \in Inst, pm \in BOOLEAN : MountP003(i, PlaceIds, pm)
  \/ \E i \in Inst : ScriptLoadPoll(i)
  \/ \E i \in Inst : ScriptError(i)
  \/ \E i \in Inst : TickP002(i)
  \/ \E i \in Inst : TickP003(i)
  \/ \E i \in Inst, ans \in {"ok", "denied"}, pos \in DevicePositions : GeoReplyP002(i, ans, pos)
  \/ \E i \in Inst, ans \in {"ok", "denied"}, pos \in DevicePositions : GeoReplyP003(i, ans, pos)
  \/ \E i \in Inst : UnmountP002(i)
  \/ \E i \in Inst : UnmountP003(i)
  \/ \E i \in Inst, b \in BOOLEAN : SetPinMode(i, b)

\* The event loop runs a due interval tick, and a started script load ends
\* in load or error.  Nothing makes the user leave the screen or answer the
\* location prompt.
SpecWait ==
  /\ Init /\ [][NextWait]_vars
  /\ WF_vars(\E i \in Inst : ScriptLoadPoll(i) \/ ScriptError(i))
  /\ WF_vars(\E i \in Inst : TickP002(i))
  /\ WF_vars(\E i \in Inst : TickP003(i))

\* ------------------------------------------------------------------ claims
\* The claim's notion of a place with coordinates: both lat and lng are set.
BothPresent(p) == PlaceLat(p) # <<>> /\ PlaceLng(p) # <<>>

\* The map a mounted, ready instance shows.
Shown(i) == mapObjs[mapRef[i]]
IsReady(i) == phase[i] = "mounted" /\ ready[i] /\ mapRef[i] # 0

\* C1: on a ready browser map the markers are exactly one per place of the
\* latest list that has both lat and lng, no duplicate and none left over.
C1_MarkersMatchPlaces ==
  \A i \in Inst : IsReady(i) =>
    Shown(i).markers = [p \in PlaceIds |-> IF p \in places[i] /\ BothPresent(p) THEN 1 ELSE 0]

\* C2: a contextmenu gesture calls onLongPress if and only if the pinMode
\* prop is true at the time of the gesture.
C2_GestureIffPinMode ==
  gesture.view # 0 => (gesture.delivered <=> gesture.pinNow)

\* C3: for one mounted view the map is constructed at most once: its code
\* invokes L.map at most once and no second map object of it ever exists.
C3_ConstructedAtMostOnce ==
  \A i \in Inst :
    /\ lmapCalls[i] <= 1
    /\ Cardinality({m \in MapIds : mapObjs[m].owner = i}) <= 1

C3_Witness ==
  /\ \E i \in Inst : variant[i] = "p000" /\ IsReady(i) /\ lmapCalls[i] = 1
  /\ \E i \in Inst : variant[i] = "web" /\ IsReady(i) /\ lmapCalls[i] = 1

\* C4: every live map belongs to a view that is still mounted: unmounting
\* removes the view's map, and no callback left pending by an unmounted view
\* creates a map afterwards, in particular none on the container of a later
\* mount.
C4_NoMapOfUnmountedView ==
  \A m \in MapIds : mapObjs[m].live => phase[mapObjs[m].owner] = "mounted"

\* C5: at most one Leaflet script tag and at most one Leaflet stylesheet tag
\* are ever appended to the document.
C5_AtMostOneTagEach ==
  /\ Cardinality({i \in Inst : script[i] # "none"}) <= 1
  /\ Cardinality({i \in Inst : link[i]}) <= 1

\* C6: every location request a mounted view waits for eventually resolves,
\* also when the geolocation service never answers, so that the view leaves
\* its loading placeholder.
C6_LocationAlwaysResolves ==
  \A i \in Inst :
    (phase[i] = "mounted" /\ ~ready[i] /\ BagIn(GeoTask(i), tasks))
      ~> (ready[i] \/ phase[i] # "mounted")

\* The location request of instance i failed or could not be made.
GeoFailed(i) == geoAnswer[i] \in {"denied", "timeout", "unavailable"}

\* C7: when geolocation is denied, fails, times out or is not available, the
\* view is constructed centred on the fallback coordinate and reaches ready
\* (at once, or in the animation frame already scheduled with the fallback).
C7_FallbackOnFailure ==
  \A i \in Inst : (GeoFailed(i) /\ phase[i] = "mounted") =>
    \/ IsReady(i) /\ Shown(i).center = DEFAULT_LOCATION
    \/ BagIn(RafTask(i, DEFAULT_LOCATION), tasks)

C7_Witness ==
  \E i \in Inst : geoAnswer[i] = "denied" /\ IsReady(i) /\ Shown(i).center = DEFAULT_LOCATION

\* The step in which a join whose code matches no map gets its answer.
JoinMissStep(u) ==
  join[u].pc = "lookup" /\ ByCode(join[u].code) = {} /\ join'[u].pc # "lookup"

\* C8: a join with a code that matches no map leaves the user's map list, the
\* memberships and the screen as they are and ends the attempt, so that the
\* user can press Join again; the dialog it was started from, if still open,
\* stays open and shows "No map found with that code".
C8_JoinMissChangesNothing ==
  [][\A u \in Users : JoinMissStep(u) =>
       /\ maps'[u] = maps[u] /\ dbUserMaps' = dbUserMaps /\ screen'[u] = screen[u]
       /\ join'[u].pc = "idle"
       /\ (join[u].own /\ joinOpen[u]) => (joinOpen'[u] /\ joinError'[u] = JOIN_MISS)]_vars

C8_Witness ==
  \E u \in Users :
    /\ joinOpen[u] /\ joinError[u] = JOIN_MISS /\ join[u].pc = "idle"
    /\ joinCode[u] # "" /\ ByCode(joinCode[u]) = {}
    /\ maps[u] # {} /\ screen[u] = "home"

C10_OwnedMapsAtMostTen ==
  \A u \in Users : Cardinality({m \in MapId : dbMaps[m].owner = u}) <= MAX_MAPS

\* C11: the places of one map in the backend never number more than 200,
\* however the add-place operations of its members interleave.
C11_PlacesAtMostTwoHundred ==
  \A m \in MapId : Cardinality({r \in dbPlaces : r[2] = m}) <= MAX_PLACES

\* C12: no two maps in the backend have the same join code, and no step
\* changes the code of a map that exists before and after it.
C12_CodeUniqueAndFixed ==
  /\ [](\A m1, m2 \in MapId :
         (m1 # m2 /\ dbMaps[m1] # NoMap /\ dbMaps[m2] # NoMap)
           => dbMaps[m1].code # dbMaps[m2].code)
  /\ [][\A m \in MapId : (dbMaps[m] # NoMap /\ dbMaps'[m] # NoMap)
                            => dbMaps'[m].code = dbMaps[m].code]_vars

\* The step in which a savePlace gets its answer and the backend has not
\* taken the write: the inserted row is not there, or the row to update is
\* there and has never been rewritten.
SaveRejectedStep(u) ==
  /\ save[u].pc # "idle" /\ save'[u].pc = "idle"
  /\ \/ save[u].pc = "insert" /\ <<save[u].id, save[u].mapList.id>> \notin dbPlaces'
     \/ /\ save[u].pc = "update"
        /\ <<save[u].id, save[u].mapList.id>> \in dbPlaces
        /\ save[u].id \notin dbEdited'

\* C13: when the backend rejects the insert or the update of a place,
\* savePlace shows the "Error saving" alert, leaves the local lists as they
\* are, leaves the dialog it was started from open if it still is, resets
\* that screen's saving flag, and writes nothing again.
C13_RejectedSaveKeepsDialog ==
  [][\A u \in Users : SaveRejectedStep(u) =>
       /\ alert'[u] = "Error saving"
       /\ maps'[u] = maps[u] /\ activeMap'[u] = activeMap[u]
       /\ save[u].own => (addOpen'[u] = addOpen[u] /\ ~savingPlace'[u])
       /\ dbPlaces' = dbPlaces /\ dbEdited' = dbEdited /\ placeClock' = placeClock]_vars

\* After a rejected update: the alert, the edit dialog still open on a place
\* whose row was never rewritten, saving reset, no call in flight.
C13_Witness ==
  \E u \in Users :
    /\ alert[u] = "Error saving" /\ screen[u] = "map"
    /\ addOpen[u] /\ ~savingPlace[u] /\ save[u].pc = "idle"
    /\ editing[u] \in activeMap[u].places /\ editing[u] \notin dbEdited
    /\ <<editing[u], activeMap[u].id>> \in dbPlaces

\* The steps in which a deletePlace, or a deleteMap, gets its answer and the
\* row it was to delete is still in the backend.
DeletePlaceFailedStep(u) ==
  /\ delPlace[u].pc = "delete" /\ delPlace'[u].pc = "idle"
  /\ <<delPlace[u].id, delPlace[u].mapList.id>> \in dbPlaces \cap dbPlaces'

DeleteMapFailedStep(u) ==
  /\ del[u] # 0 /\ del'[u] = 0
  /\ dbMaps[del[u]] # NoMap /\ dbMaps'[del[u]] # NoMap

\* C14: a deletePlace or a deleteMap that failed in the backend leaves an
\* alert up and does not take the place, or the map, out of the local lists.
C14_FailedDeleteSurfaced ==
  [][\A u \in Users :
       /\ DeletePlaceFailedStep(u) =>
            /\ alert'[u] # ""
            /\ delPlace[u].id \in activeMap'[u].places
       /\ DeleteMapFailedStep(u) =>
            /\ alert'[u] # ""
            /\ del[u] \in ListIds(maps[u]) => del[u] \in ListIds(maps'[u])]_vars

\* C15: a deleteMap is in flight only for a user who owns the map, and every
\* step that takes a map row out of the backend is the answer to the
\* deleteMap of the user whose id is the row's owner.
C15_OnlyOwnerDeletes ==
  /\ [](\A u \in Users : (del[u] # 0 /\ dbMaps[del[u]] # NoMap) => dbMaps[del[u]].owner = u)
  /\ [][\A m \in MapId : (dbMaps[m] # NoMap /\ dbMaps'[m] = NoMap) =>
          \E u \in Users : del[u] = m /\ del'[u] = 0 /\ dbMaps[m].owner = u]_vars

\* The owner has deleted the map while a member, who is not the owner, had
\* it open, and the member has added a place to it before.
C15_Witness ==
  \E u \in Users : \E m \in deleted :
    /\ screen[u] = "map" /\ activeMap[u].id = m /\ activeMap[u].owner # u
    /\ deletedPlaces # {}

\* C16: removing a map from the list leaves the maps and places of the
\* backend as they are, and a map a user has removed is not in that user's
\* list again until the user rejoins it with the code.
C16_RemovedStaysRemoved ==
  /\ [](\A u \in Users : ListIds(maps[u]) \cap removed[u] = {})
  /\ [][\A u \in Users : (removed'[u] \ removed[u] # {}) =>
          (dbMaps' = dbMaps /\ dbPlaces' = dbPlaces)]_vars

\* C17: once a view is unmounted, none of its readiness polls is left to run:
\* its interval is cleared and no setTimeout retry of it is pending.
C17_NoPollAfterUnmount ==
  \A i \in Inst : phase[i] = "gone" =>
    /\ ~interval[i]
    /\ \A c \in Centers : ~BagIn(TimerTask(i, c), tasks)

\* C18: polling for the library and the element is bounded: an interval that
\* runs is cleared after finitely many ticks, whether or not the library
\* loads, and a view that gave up has no map and is not ready.
C18_PollingStops ==
  \A i \in Inst : interval[i] ~> ~interval[i]

\* C19: no timer and no location callback that completes after a view's map
\* was removed calls flyTo or invalidateSize on that map.
C19_NoOperationOnRemovedMap == lateOps = {}

\* C20: every map was constructed on an element that was in the document
\* and had a height when L.map ran; a poll that runs out on an element
\* without a height constructs nothing.
C20_ConstructedOnSizedElement == \A b \in builtOn : b.attached /\ b.height

\* C21: markers are on a map only while it is live and its view is mounted
\* and ready; in the iframe view no updateMarkers is posted to a frame whose
\* page has not reported ready, every callback is delivered to a view that is
\* ready with its page, and once the page has reported ready it shows the
\* markers of the current place list.
C21_OnlyWhileReady ==
  /\ \A m \in MapIds : (\E p \in PlaceIds : mapObjs[m].markers[p] > 0) =>
        /\ mapObjs[m].live
        /\ phase[mapObjs[m].owner] = "mounted" /\ ready[mapObjs[m].owner]
  /\ earlyUpdate = {}
  /\ \A c \in frameCalls : c.live
  /\ \A i \in Listening :
        (iframeReady[i] /\ frameDoc[i] = "page" /\ FrameMsg("ready", i, 0) \notin msgs)
          => frameMarkers[i] = MarkersFor(places[i])

\* C22: a view of the WebMap whose init effect re-runs has at most one map
\* that is not removed, and a view that is unmounted has none: no init
\* sequence that was superseded or outlived the unmount leaves a live map.
C22_OneLiveMapPerView ==
  \A i \in Inst : variant[i] \in {"sm30", "sm40"} =>
    LET Live == {m \in MapIds : mapObjs[m].owner = i /\ mapObjs[m].live}
    IN /\ Cardinality(Live) <= 1
       /\ phase[i] = "gone" => Live = {}

\* C26: in that WebMap the map of a ready view, rebuilt or not, carries one
\* marker for each place of the list that has coordinates.
C26_MarkersAfterRebuild ==
  \A i \in Inst : (variant[i] \in {"sm30", "sm40"} /\ IsReady(i)) =>
    mapObjs[mapRef[i]].markers = MarkersFor(places[i])

\* C29: a place of the list whose lat and lng are both set, 0 included, has
\* its marker on the map of a ready view, browser or native; a place with a
\* missing coordinate has none.
C29_ZeroIsACoordinate ==
  \A i \in Inst : (variant[i] \in {"web", "native"} /\ IsReady(i)) =>
    \A p \in places[i] : Shown(i).markers[p] = Bit(BothPresent(p))

\* onMapJoined ends for user u: the answer to the upsert is handled.
JoinDoneStep(u) == join[u].pc = "upsert" /\ join'[u].pc = "idle"

C25_EmptyAfterSignOut == \A u \in Users : ~session[u] => maps[u] = {}

\* The lookup timers of the mounted map screen of user u that are pending.
PendingTimers(u) == {t \in geoTimers : t.u = u /\ t.own}

\* A step of searchLocation of user u (the dialog stays open and the text of
\* the field becomes the text typed).
SearchStep(u) ==
  /\ addOpen[u] /\ addOpen'[u]
  /\ geoQuery'[u] # geoQuery[u] /\ geoQuery'[u] = lastTyped'[u]

\* C23: the location search is debounced.  At most one lookup timer of the
\* screen is pending; a pending timer is for the text typed last, which is
\* not blank, so typing again has cancelled the one before; every request
\* sent carries the text that was the last one typed when it was sent; and
\* typing a blank text leaves no timer, sends nothing and empties the
\* result list.
C23_Debounced ==
  [][\A u \in Users :
       /\ Cardinality(PendingTimers(u)') <= 1
       /\ \A t \in PendingTimers(u)' : t.query = lastTyped'[u] /\ Trim(t.query) # <<>>
       /\ \A r \in geoSent' :
            r.own /\ r.u = u => r.q = RequestQ(r.last) /\ Trim(r.last) # <<>>
       /\ SearchStep(u) /\ Trim(lastTyped'[u]) = <<>> =>
            /\ PendingTimers(u)' = {} /\ geoResults'[u] = <<>>
            /\ geoFlight' = geoFlight /\ geoSent' = geoSent]_vars

\* Two texts were typed one after the other, "a" and then "ab" while the
\* timer of "a" was pending: one request has been sent, for "ab".
C23_Witness ==
  /\ timerClock = 2 /\ geoTimers = {}
  /\ geoSent = {[u |-> 1, q |-> RequestQ(<<"a", "b">>), last |-> <<"a", "b">>, own |-> TRUE]}
  /\ geoQuery[1] = <<"a", "b">>

\* C24: the results shown belong to the text of the location field: every
\* row of the result list answers the query that is the current text.
C24_ResultsOfCurrentText ==
  \A u \in Users : \A k \in 1..Len(geoResults[u]) :
    geoResults[u][k].query = geoQuery[u]

\* C27: in MapDetailScreen pin mode and the add/edit dialog are never active
\* together.
C27_PinModeExcludesDialog == \A u \in Users : ~(detailPin[u] /\ addOpen[u])

\* Pin mode was turned on from the dialog, a long-press was taken, and the
\* dialog is open again with the coordinate in the draft.
C27_Witness ==
  \E u \in Users : addOpen[u] /\ ~detailPin[u] /\ captured[u] = 1 /\ form[u].lat # <<>>

\* A step in which handleMapLongPress of user u runs.
CaptureStep(u) == captured'[u] = captured[u] + 1

\* C28: a long-press taken by handleMapLongPress sets lat and lng of the
\* draft to the pressed coordinate and keeps its other fields and the
\* editing target, turns pin mode off and opens the dialog, leaves the place
\* lists and the backend as they are, and is the only one since pin mode
\* was turned on.
C28_CaptureChangesOnlyDraft ==
  [][\A u \in Users : CaptureStep(u) =>
       /\ \E c \in Centers : form'[u] = [form[u] EXCEPT !.lat = <<c[1]>>, !.lng = <<c[2]>>]
       /\ editing'[u] = editing[u]
       /\ ~detailPin'[u] /\ addOpen'[u]
       /\ maps' = maps /\ activeMap' = activeMap
       /\ dbPlaces' = dbPlaces /\ dbEdited' = dbEdited /\ dbMaps' = dbMaps
       /\ captured'[u] <= 1]_vars

====
